---- MODULE Spec2Model ----
(***************************************************************************)
(* Model of the Exa MCP server (server.py): the eight operation functions, *)
(* the tool catalog of list_tools and the dispatcher call_tool built by    *)
(* build_mcp_server, with the upstream HTTP service as the environment.    *)
(* A dispatch advances from one await on the upstream to the next.         *)
(***************************************************************************)
EXTENDS Integers, Sequences, FiniteSets, TLC

VARIABLES EXA_API_KEY, pc, mode, name, arguments, opcall, stubs, contents,
          fetched, enriched, requests, replies, outcome, listed, tasks

vars == <<EXA_API_KEY, pc, mode, name, arguments, opcall, stubs, contents,
          fetched, enriched, requests, replies, outcome, listed, tasks>>

(***************************************************************************)
(* Bounds of the model.                                                    *)
(***************************************************************************)
MaxItems == 2

(***************************************************************************)
(* Python / JSON values, tagged by their type.                             *)
(***************************************************************************)
PyNone == [t |-> "NoneType"]

S(x) == [t |-> "str", s |-> x]

I(x) == [t |-> "int", n |-> x]

B(x) == [t |-> "bool", b |-> x]

L(x) == [t |-> "list", l |-> x]

D(x) == [t |-> "dict", d |-> x]

EmptyDict == D([k \in {} |-> PyNone])

\* the body of a 2xx response that is not JSON
NotJson == [t |-> "notjson"]

\* Python truthiness, as used by `if not x` and `x or y`
Truthy(v) ==
    CASE v.t = "NoneType" -> FALSE
      [] v.t = "str" -> v.s # ""
      [] v.t = "int" -> v.n # 0
      [] v.t = "bool" -> v.b
      [] v.t = "list" -> Len(v.l) > 0
      [] v.t = "dict" -> DOMAIN v.d # {}
      [] OTHER -> TRUE

\* isinstance(v, list)
IsList(v) == v.t = "list"

IsDict(v) == v.t = "dict"

\* x or y
PyOr(x, y) == IF Truthy(x) THEN x ELSE y

\* d.get(k, default) on a dict value
GetD(v, k, default) == IF k \in DOMAIN v.d THEN v.d[k] ELSE default

\* d.get(k)
Get(v, k) == GetD(v, k, PyNone)

\* a slice that keeps the whole list
Slice_NoLimit(q, n) == q

\* seq[:n] for a Python int or None n
Slice(q, n) ==
    IF n.t = "NoneType" THEN q
    ELSE LET m == IF n.n >= 0 THEN n.n ELSE Len(q) + n.n
             k == IF m < 0 THEN 0 ELSE IF m > Len(q) THEN Len(q) ELSE m
         IN  SubSeq(q, 1, k)

\* f"{v}" for the values that occur
Fmt(v) ==
    CASE v.t = "str" -> v.s
      [] v.t = "int" -> ToString(v.n)
      [] v.t = "NoneType" -> "None"
      [] OTHER -> "?"

(***************************************************************************)
(* Outcomes of a call: a returned value or a raised exception.             *)
(***************************************************************************)
Ok(v) == [ok |-> TRUE, val |-> v]

Raise(cls, msg) == [ok |-> FALSE, exc |-> [cls |-> cls, msg |-> msg]]

\* the classes `except Exception` would catch if CancelledError were an
\* Exception (as it was before Python 3.8)
ExceptionClasses_WithCancelled ==
    {"Exception", "ValueError", "TypeError", "AttributeError",
     "HTTPStatusError", "ConnectError", "JSONDecodeError", "CancelledError"}

\* the classes caught by `except Exception`
ExceptionClasses == {"Exception", "ValueError", "TypeError", "AttributeError",
                     "HTTPStatusError", "ConnectError", "JSONDecodeError"}

(***************************************************************************)
(* Endpoints.                                                              *)
(***************************************************************************)
EXA_SEARCH_ENDPOINT == "https://api.exa.ai/search"

EXA_CONTENTS_ENDPOINT == "https://api.exa.ai/contents"

EXA_FIND_SIMILAR_ENDPOINT == "https://api.exa.ai/findSimilar"

EXA_ANSWER_ENDPOINT == "https://api.exa.ai/answer"

EXA_RESEARCH_TASKS_ENDPOINT == "https://api.exa.ai/research/v0/tasks"

(***************************************************************************)
(* The upstream exchange shared by the operation functions:                *)
(*   response = await client.post(...); response.raise_for_status();       *)
(*   data = response.json()                                                *)
(***************************************************************************)
NetFail == [kind |-> "neterr"]

Http(status, data) == [kind |-> "http", status |-> status, data |-> data]

\* an exchange without raise_for_status
Receive_NoStatusCheck(resp) ==
    IF resp.kind = "neterr" THEN Raise("ConnectError", <<"connection failed">>)
    ELSE IF resp.data = NotJson
         THEN Raise("JSONDecodeError", <<"Expecting value">>)
    ELSE Ok(resp.data)

Receive(resp) ==
    IF resp.kind = "neterr" THEN Raise("ConnectError", <<"connection failed">>)
    ELSE IF ~(resp.status >= 200 /\ resp.status < 300)
         THEN Raise("HTTPStatusError", <<"status ", ToString(resp.status)>>)
    ELSE IF resp.data = NotJson
         THEN Raise("JSONDecodeError", <<"Expecting value">>)
    ELSE Ok(resp.data)

MissingKey == Raise("Exception", <<"EXA_API_KEY", " environment variable is not set">>)

NoAttrGet == Raise("AttributeError", <<"object has no attribute 'get'">>)

Request(method, url, payload, headers, timeout) ==
    [method |-> method, url |-> url, payload |-> payload,
     headers |-> headers, timeout |-> timeout]

KeyHeader(key) == [k \in {"x-api-key"} |-> key]

\* data.get("results", []) and the iteration over it
ResultsOf(data) ==
    IF ~IsDict(data) THEN NoAttrGet
    ELSE LET r == GetD(data, "results", L(<<>>))
         IN  IF IsList(r) THEN Ok(r.l)
             ELSE Raise("TypeError", <<"results is not a list">>)

AllDicts(q) == \A i \in 1..Len(q) : IsDict(q[i])

\* {"title": r.get("title"), "url": r.get("url"), "text": r.get("text")}
ContentRecord(r) ==
    D([title |-> Get(r, "title"), url |-> Get(r, "url"), text |-> Get(r, "text")])

(***************************************************************************)
(* The operation functions.  Each is split at its single await: X_send is  *)
(* the code before the request (Ok(request) or the exception raised before *)
(* any request), X_recv the code after the response has arrived.           *)
(***************************************************************************)
\* a search that sends its request without looking at the credential
exa_web_search_send_NoKeyCheck(key, query, num_results) ==
    Ok(Request("POST", <<EXA_SEARCH_ENDPOINT>>,
               D([query |-> query, num_results |-> num_results, text |-> B(FALSE)]),
               KeyHeader(key), 30))

exa_web_search_send(key, query, num_results) ==
    IF key = "" THEN MissingKey
    ELSE Ok(Request("POST", <<EXA_SEARCH_ENDPOINT>>,
                    D([query |-> query, num_results |-> num_results, text |-> B(FALSE)]),
                    KeyHeader(key), 30))

\* a stub whose snippet is the upstream text, whatever it is
SearchStub_TextOnly(item) ==
    D([title |-> Get(item, "title"), url |-> Get(item, "url"),
       snippet |-> Get(item, "text")])

SearchStub(item) ==
    D([title |-> Get(item, "title"), url |-> Get(item, "url"),
       snippet |-> PyOr(PyOr(Get(item, "text"), Get(item, "summary")), S(""))])

exa_web_search_recv(num_results, resp) ==
    LET rcv == Receive(resp) IN
    IF ~rcv.ok THEN rcv ELSE
    LET rs == ResultsOf(rcv.val) IN
    IF ~rs.ok THEN rs ELSE
    IF num_results.t \notin {"int", "NoneType"}
    THEN Raise("TypeError", <<"slice indices must be integers or None">>) ELSE
    LET sl == Slice(rs.val, num_results) IN
    IF ~AllDicts(sl) THEN NoAttrGet
    ELSE Ok(L([i \in 1..Len(sl) |-> SearchStub(sl[i])]))

exa_find_similar_links_send(key, url, include_text) ==
    IF key = "" THEN MissingKey
    ELSE Ok(Request("POST", <<EXA_FIND_SIMILAR_ENDPOINT>>,
                    D([url |-> url, text |-> include_text]), KeyHeader(key), 30))

\* a similar link that carries the upstream text whatever include_text is
SimilarLink_AlwaysText(item, include_text) ==
    D([title |-> Get(item, "title"), url |-> Get(item, "url"),
       score |-> Get(item, "score"),
       text |-> PyOr(PyOr(Get(item, "text"), Get(item, "summary")), S(""))])

SimilarLink(item, include_text) ==
    D([title |-> Get(item, "title"), url |-> Get(item, "url"),
       score |-> Get(item, "score"),
       text |-> IF Truthy(include_text)
                THEN PyOr(PyOr(Get(item, "text"), Get(item, "summary")), S(""))
                ELSE PyNone])

exa_find_similar_links_recv(include_text, num_results, resp) ==
    LET rcv == Receive(resp) IN
    IF ~rcv.ok THEN rcv ELSE
    LET rs == ResultsOf(rcv.val) IN
    IF ~rs.ok THEN rs ELSE
    IF num_results.t \notin {"int", "NoneType"}
    THEN Raise("TypeError", <<"slice indices must be integers or None">>) ELSE
    LET sl == Slice(rs.val, num_results) IN
    IF ~AllDicts(sl) THEN NoAttrGet
    ELSE Ok(L([i \in 1..Len(sl) |-> SimilarLink(sl[i], include_text)]))

exa_answer_question_send(key, query, include_text) ==
    IF key = "" THEN MissingKey
    ELSE Ok(Request("POST", <<EXA_ANSWER_ENDPOINT>>,
                    D([query |-> query, text |-> include_text]), KeyHeader(key), 30))

exa_answer_question_recv(resp) == Receive(resp)

exa_research_start_send(key, instructions, model, output_schema) ==
    IF key = "" THEN MissingKey
    ELSE LET p0 == [instructions |-> instructions]
             p1 == IF Truthy(model) THEN p0 @@ [model |-> model] ELSE p0
             p2 == IF Truthy(output_schema)
                   THEN p1 @@ [output |-> D([schema |-> output_schema])] ELSE p1
         IN  Ok(Request("POST", <<EXA_RESEARCH_TASKS_ENDPOINT>>, D(p2),
                        KeyHeader(key) @@ [k \in {"Content-Type"} |-> "application/json"],
                        30))

exa_research_start_recv(resp) == Receive(resp)

exa_research_poll_send(key, task_id) ==
    IF key = "" THEN MissingKey
    ELSE Ok(Request("GET", <<EXA_RESEARCH_TASKS_ENDPOINT, "/", Fmt(task_id)>>,
                    PyNone, KeyHeader(key), 30))

exa_research_poll_recv(resp) == Receive(resp)

exa_fetch_content_send(key, url) ==
    IF key = "" THEN MissingKey
    ELSE Ok(Request("POST", <<EXA_CONTENTS_ENDPOINT>>,
                    D([urls |-> L(<<url>>), text |-> B(TRUE)]), KeyHeader(key), 30))

\* a first result taken without the emptiness check: results[0] on an empty list
FirstResult_Unchecked(data) ==
    IF ~IsDict(data) THEN NoAttrGet
    ELSE LET r == GetD(data, "results", L(<<>>)) IN
         IF ~IsList(r) THEN Raise("TypeError", <<"results is not subscriptable">>)
         ELSE IF r.l = <<>> THEN Raise("IndexError", <<"list index out of range">>)
         ELSE IF ~IsDict(r.l[1]) THEN NoAttrGet
         ELSE Ok(r.l[1])

\* results = data.get("results", []); if not results: raise; result = results[0]
FirstResult(data) ==
    IF ~IsDict(data) THEN NoAttrGet
    ELSE LET r == GetD(data, "results", L(<<>>)) IN
         IF ~Truthy(r)
         THEN Raise("Exception", <<"No content returned", " from Exa for the given URL">>)
         ELSE IF ~IsList(r) THEN Raise("TypeError", <<"results is not a list">>)
         ELSE IF ~IsDict(r.l[1]) THEN NoAttrGet
         ELSE Ok(r.l[1])

exa_fetch_content_recv(resp) ==
    LET rcv == Receive(resp) IN
    IF ~rcv.ok THEN rcv ELSE
    LET fr == FirstResult(rcv.val) IN
    IF ~fr.ok THEN fr ELSE Ok(ContentRecord(fr.val))

\* a bulk fetch that checks urls before the credential
exa_fetch_contents_send_UrlsFirst(key, urls, livecrawl) ==
    IF ~Truthy(urls)
    THEN Raise("Exception", <<"Argument '", "urls", "' must be a non[U+2011]empty list of URLs">>)
    ELSE IF key = "" THEN MissingKey
    ELSE LET p0 == [urls |-> urls, text |-> B(TRUE)]
             p1 == IF Truthy(livecrawl) THEN p0 @@ [livecrawl |-> livecrawl] ELSE p0
         IN  Ok(Request("POST", <<EXA_CONTENTS_ENDPOINT>>, D(p1), KeyHeader(key), 60))

\* a bulk fetch that does not check urls
exa_fetch_contents_send_Unchecked(key, urls, livecrawl) ==
    IF key = "" THEN MissingKey
    ELSE LET p0 == [urls |-> urls, text |-> B(TRUE)]
             p1 == IF Truthy(livecrawl) THEN p0 @@ [livecrawl |-> livecrawl] ELSE p0
         IN  Ok(Request("POST", <<EXA_CONTENTS_ENDPOINT>>, D(p1), KeyHeader(key), 60))

\* a bulk fetch that checks urls only when no livecrawl is given
exa_fetch_contents_send_LivecrawlUnchecked(key, urls, livecrawl) ==
    IF key = "" THEN MissingKey
    ELSE IF ~Truthy(urls) /\ ~Truthy(livecrawl)
    THEN Raise("Exception", <<"Argument '", "urls", "' must be a non[U+2011]empty list of URLs">>)
    ELSE LET p0 == [urls |-> urls, text |-> B(TRUE)]
             p1 == IF Truthy(livecrawl) THEN p0 @@ [livecrawl |-> livecrawl] ELSE p0
         IN  Ok(Request("POST", <<EXA_CONTENTS_ENDPOINT>>, D(p1), KeyHeader(key), 60))

\* the message of line 330 is written with a non-breaking hyphen (U+2011),
\* shown here as [U+2011]
exa_fetch_contents_send(key, urls, livecrawl) ==
    IF key = "" THEN MissingKey
    ELSE IF ~Truthy(urls)
    THEN Raise("Exception", <<"Argument '", "urls", "' must be a non[U+2011]empty list of URLs">>)
    ELSE LET p0 == [urls |-> urls, text |-> B(TRUE)]
             p1 == IF Truthy(livecrawl) THEN p0 @@ [livecrawl |-> livecrawl] ELSE p0
         IN  Ok(Request("POST", <<EXA_CONTENTS_ENDPOINT>>, D(p1), KeyHeader(key), 60))

\* a bulk fetch that leaves out the items that have no url
exa_fetch_contents_recv_OmitUnfetched(resp) ==
    LET rcv == Receive(resp) IN
    IF ~rcv.ok THEN rcv ELSE
    LET rs == ResultsOf(rcv.val) IN
    IF ~rs.ok THEN rs ELSE
    IF ~AllDicts(rs.val) THEN NoAttrGet
    ELSE LET HasUrl(r) == Truthy(Get(r, "url"))
             kept == SelectSeq(rs.val, HasUrl)
         IN  Ok(L([i \in 1..Len(kept) |-> ContentRecord(kept[i])]))

exa_fetch_contents_recv(resp) ==
    LET rcv == Receive(resp) IN
    IF ~rcv.ok THEN rcv ELSE
    LET rs == ResultsOf(rcv.val) IN
    IF ~rs.ok THEN rs ELSE
    IF ~AllDicts(rs.val) THEN NoAttrGet
    ELSE Ok(L([i \in 1..Len(rs.val) |-> ContentRecord(rs.val[i])]))

\* a subpage fetch that checks livecrawl against the values of the schema
exa_fetch_subpages_send_LivecrawlChecked(key, url, subpages, subpage_target, livecrawl) ==
    IF key = "" THEN MissingKey
    ELSE IF Truthy(livecrawl) /\ livecrawl \notin {S("always"), S("preferred"), S("never")}
    THEN Raise("ValueError", <<"Argument '", "livecrawl", "' is not valid">>)
    ELSE LET p0 == [urls |-> L(<<url>>), text |-> B(TRUE), subpages |-> subpages]
             p1 == IF Truthy(subpage_target)
                   THEN p0 @@ [subpage_target |-> subpage_target] ELSE p0
             p2 == IF Truthy(livecrawl) THEN p1 @@ [livecrawl |-> livecrawl] ELSE p1
         IN  Ok(Request("POST", <<EXA_CONTENTS_ENDPOINT>>, D(p2), KeyHeader(key), 60))

exa_fetch_subpages_send(key, url, subpages, subpage_target, livecrawl) ==
    IF key = "" THEN MissingKey
    ELSE LET p0 == [urls |-> L(<<url>>), text |-> B(TRUE), subpages |-> subpages]
             p1 == IF Truthy(subpage_target)
                   THEN p0 @@ [subpage_target |-> subpage_target] ELSE p0
             p2 == IF Truthy(livecrawl) THEN p1 @@ [livecrawl |-> livecrawl] ELSE p1
         IN  Ok(Request("POST", <<EXA_CONTENTS_ENDPOINT>>, D(p2), KeyHeader(key), 60))

exa_fetch_subpages_recv(resp) ==
    LET rcv == Receive(resp) IN
    IF ~rcv.ok THEN rcv ELSE
    LET fr == FirstResult(rcv.val) IN
    IF ~fr.ok THEN fr ELSE
    LET subs == GetD(fr.val, "subpages", L(<<>>)) IN
    IF ~IsList(subs) THEN Raise("TypeError", <<"subpages is not iterable">>)
    ELSE IF ~AllDicts(subs.l) THEN NoAttrGet
    ELSE Ok(D([page |-> ContentRecord(fr.val),
               subpages |-> L([i \in 1..Len(subs.l) |-> ContentRecord(subs.l[i])])]))

(***************************************************************************)
(* An operation call in flight: the function and its keyword arguments.    *)
(***************************************************************************)
OpNames == {"exa_web_search", "exa_fetch_content", "exa_fetch_contents",
            "exa_fetch_subpages", "exa_find_similar_links", "exa_answer_question",
            "exa_research_start", "exa_research_poll"}

OpCall(op, kw) == [op |-> op, kw |-> kw]

NoCall == OpCall("", <<>>)

\* the code of operation c.op up to its request
Send(key, c) ==
    CASE c.op = "exa_web_search" ->
            exa_web_search_send(key, c.kw.query, c.kw.num_results)
      [] c.op = "exa_fetch_content" -> exa_fetch_content_send(key, c.kw.url)
      [] c.op = "exa_fetch_contents" ->
            exa_fetch_contents_send(key, c.kw.urls, c.kw.livecrawl)
      [] c.op = "exa_fetch_subpages" ->
            exa_fetch_subpages_send(key, c.kw.url, c.kw.subpages,
                                    c.kw.subpage_target, c.kw.livecrawl)
      [] c.op = "exa_find_similar_links" ->
            exa_find_similar_links_send(key, c.kw.url, c.kw.include_text)
      [] c.op = "exa_answer_question" ->
            exa_answer_question_send(key, c.kw.query, c.kw.include_text)
      [] c.op = "exa_research_start" ->
            exa_research_start_send(key, c.kw.instructions, c.kw.model,
                                    c.kw.output_schema)
      [] c.op = "exa_research_poll" -> exa_research_poll_send(key, c.kw.task_id)

\* the code of operation c.op after its response
Recv(c, resp) ==
    CASE c.op = "exa_web_search" -> exa_web_search_recv(c.kw.num_results, resp)
      [] c.op = "exa_fetch_content" -> exa_fetch_content_recv(resp)
      [] c.op = "exa_fetch_contents" -> exa_fetch_contents_recv(resp)
      [] c.op = "exa_fetch_subpages" -> exa_fetch_subpages_recv(resp)
      [] c.op = "exa_find_similar_links" ->
            exa_find_similar_links_recv(c.kw.include_text, c.kw.num_results, resp)
      [] c.op = "exa_answer_question" -> exa_answer_question_recv(resp)
      [] c.op = "exa_research_start" -> exa_research_start_recv(resp)
      [] c.op = "exa_research_poll" -> exa_research_poll_recv(resp)

(***************************************************************************)
(* The tool catalog returned by list_tools: name and required arguments of *)
(* each descriptor, in list order.                                         *)
(***************************************************************************)
Tool(n, required) == [name |-> n, required |-> required]

\* a catalog that leaves out the last tool
list_tools_WithoutPoll ==
    << Tool("exa_web_search", <<"query">>),
       Tool("exa_fetch_content", <<"url">>),
       Tool("exa_fetch_contents", <<"urls">>),
       Tool("exa_fetch_subpages", <<"url">>),
       Tool("exa_find_similar_links", <<"url">>),
       Tool("exa_answer_question", <<"query">>),
       Tool("exa_research_start", <<"instructions">>) >>

list_tools ==
    << Tool("exa_web_search", <<"query">>),
       Tool("exa_fetch_content", <<"url">>),
       Tool("exa_fetch_contents", <<"urls">>),
       Tool("exa_fetch_subpages", <<"url">>),
       Tool("exa_find_similar_links", <<"url">>),
       Tool("exa_answer_question", <<"query">>),
       Tool("exa_research_start", <<"instructions">>),
       Tool("exa_research_poll", <<"task_id">>) >>

(***************************************************************************)
(* The envelope.  A text is its leading tokens followed by the JSON value  *)
(* it serialises (NoJson for a plain message).                             *)
(***************************************************************************)
NoJson == [t |-> "nojson"]

TextContent(text) == [type |-> "text", text |-> text]

\* a serialisation that writes a string without its quotes
JsonLead_RawString(v) ==
    CASE v.t = "list" -> "["
      [] v.t = "dict" -> "{"
      [] v.t = "str" -> v.s
      [] v.t = "NoneType" -> "null"
      [] v.t = "bool" -> IF v.b THEN "true" ELSE "false"
      [] v.t = "int" -> ToString(v.n)
      [] OTHER -> "?"

\* the first characters json.dumps(v, indent=2) writes for v
JsonLead(v) ==
    CASE v.t = "list" -> "["
      [] v.t = "dict" -> "{"
      [] v.t = "str" -> "\""
      [] v.t = "NoneType" -> "null"
      [] v.t = "bool" -> IF v.b THEN "true" ELSE "false"
      [] v.t = "int" -> ToString(v.n)
      [] OTHER -> "?"

json_dumps(v) == [head |-> <<JsonLead(v)>>, json |-> v]

\* f"Error: {str(e)}"
ErrorText(msg) == [head |-> <<"Error: ">> \o msg, json |-> NoJson]

\* an unknown-tool text without the leading marker
UnknownToolText_NoMarker(n) == [head |-> <<"Unknown tool '", n, "'">>, json |-> NoJson]

\* f"Error: Unknown tool '{name}'"
UnknownToolText(n) == [head |-> <<"Error: ", "Unknown tool '", n, "'">>, json |-> NoJson]

Return(v) == [kind |-> "return", value |-> v]

Escape(exc) == [kind |-> "raise", exc |-> exc]

NoOutcome == [kind |-> "none"]

\* a handler that catches ValueError only
ExceptHandler_ValueErrorOnly(exc) ==
    IF exc.cls = "ValueError"
    THEN Return(<<TextContent(ErrorText(exc.msg))>>)
    ELSE Escape(exc)

\* except Exception as e: return [TextContent(type="text", text=f"Error: {str(e)}")]
ExceptHandler(exc) ==
    IF exc.cls \in ExceptionClasses
    THEN Return(<<TextContent(ErrorText(exc.msg))>>)
    ELSE Escape(exc)

Success(v) == Return(<<TextContent(json_dumps(v))>>)

ValueError(arg, rest) == Raise("ValueError", <<"Argument '", arg, rest>>)

(***************************************************************************)
(* call_tool up to the call of the operation function: the if/elif chain   *)
(* on the tool name, each branch with its argument checks.  A branch gives *)
(* the operation call it makes or the ValueError it raises.                *)
(***************************************************************************)
branch_exa_web_search(a) ==
    IF ~Truthy(Get(a, "query")) THEN ValueError("query", "' is required")
    ELSE Ok(OpCall("exa_web_search",
                   [query |-> Get(a, "query"),
                    num_results |-> GetD(a, "num_results", I(3))]))

branch_exa_fetch_content(a) ==
    IF ~Truthy(Get(a, "url")) THEN ValueError("url", "' is required")
    ELSE Ok(OpCall("exa_fetch_content", [url |-> Get(a, "url")]))

branch_exa_find_similar_links(a) ==
    IF ~Truthy(Get(a, "url")) THEN ValueError("url", "' is required")
    ELSE Ok(OpCall("exa_find_similar_links",
                   [url |-> Get(a, "url"),
                    include_text |-> GetD(a, "include_text", B(FALSE)),
                    num_results |-> GetD(a, "num_results", I(3))]))

branch_exa_fetch_contents(a) ==
    IF ~Truthy(Get(a, "urls")) \/ ~IsList(Get(a, "urls"))
    THEN ValueError("urls", "' must be a non-empty list")
    ELSE Ok(OpCall("exa_fetch_contents",
                   [urls |-> Get(a, "urls"), livecrawl |-> Get(a, "livecrawl")]))

\* a branch that never looks at subpage_target
branch_exa_fetch_subpages_NoTargetCheck(a) ==
    IF ~Truthy(Get(a, "url")) THEN ValueError("url", "' is required")
    ELSE Ok(OpCall("exa_fetch_subpages",
                   [url |-> Get(a, "url"),
                    subpages |-> GetD(a, "subpages", I(5)),
                    subpage_target |-> Get(a, "subpage_target"),
                    livecrawl |-> Get(a, "livecrawl")]))

branch_exa_fetch_subpages(a) ==
    IF ~Truthy(Get(a, "url")) THEN ValueError("url", "' is required")
    ELSE IF Truthy(Get(a, "subpage_target")) /\ ~IsList(Get(a, "subpage_target"))
    THEN ValueError("subpage_target", "' must be an array of strings if provided")
    ELSE Ok(OpCall("exa_fetch_subpages",
                   [url |-> Get(a, "url"),
                    subpages |-> GetD(a, "subpages", I(5)),
                    subpage_target |-> Get(a, "subpage_target"),
                    livecrawl |-> Get(a, "livecrawl")]))

branch_exa_answer_question(a) ==
    IF ~Truthy(Get(a, "query")) THEN ValueError("query", "' is required")
    ELSE Ok(OpCall("exa_answer_question",
                   [query |-> Get(a, "query"),
                    include_text |-> GetD(a, "include_text", B(FALSE))]))

\* a branch that passes instructions on without checking them
branch_exa_research_start_Unchecked(a) ==
    Ok(OpCall("exa_research_start",
              [instructions |-> Get(a, "instructions"),
               model |-> Get(a, "model"),
               output_schema |-> Get(a, "output_schema")]))

branch_exa_research_start(a) ==
    IF ~Truthy(Get(a, "instructions")) THEN ValueError("instructions", "' is required")
    ELSE Ok(OpCall("exa_research_start",
                   [instructions |-> Get(a, "instructions"),
                    model |-> Get(a, "model"),
                    output_schema |-> Get(a, "output_schema")]))

branch_exa_research_poll(a) ==
    IF ~Truthy(Get(a, "task_id")) THEN ValueError("task_id", "' is required")
    ELSE Ok(OpCall("exa_research_poll", [task_id |-> Get(a, "task_id")]))

\* the chain itself; Ok(NoCall) is its final else (unknown tool)
Branch(n, a) ==
    CASE n = "exa_web_search" -> branch_exa_web_search(a)
      [] n = "exa_fetch_content" -> branch_exa_fetch_content(a)
      [] n = "exa_find_similar_links" -> branch_exa_find_similar_links(a)
      [] n = "exa_fetch_contents" -> branch_exa_fetch_contents(a)
      [] n = "exa_fetch_subpages" -> branch_exa_fetch_subpages(a)
      [] n = "exa_answer_question" -> branch_exa_answer_question(a)
      [] n = "exa_research_start" -> branch_exa_research_start(a)
      [] n = "exa_research_poll" -> branch_exa_research_poll(a)
      [] OTHER -> Ok(NoCall)

(***************************************************************************)
(* Search enrichment (include_text).                                       *)
(***************************************************************************)
\* the urls of all stubs, the missing ones included
RECURSIVE UrlsOf_Unfiltered(_)
UrlsOf_Unfiltered(results) ==
    IF results = <<>> THEN <<>>
    ELSE <<Get(Head(results), "url")>> \o UrlsOf_Unfiltered(Tail(results))

\* urls = [item.get("url") for item in results if item.get("url")]
RECURSIVE UrlsOf(_)
UrlsOf(results) ==
    IF results = <<>> THEN <<>>
    ELSE LET u == Get(Head(results), "url")
         IN  (IF Truthy(u) THEN <<u>> ELSE <<>>) \o UrlsOf(Tail(results))

\* a lookup without the default: url_to_content.get(page_url)
Lookup_NoDefault(cs, page_url, default) ==
    LET hits == {j \in 1..Len(cs) : Get(cs[j], "url") = page_url}
    IN  IF hits = {} THEN PyNone
        ELSE cs[CHOOSE j \in hits : \A k \in hits : k <= j]

\* url_to_content = {item.get("url"): item for item in contents}
\* url_to_content.get(page_url, item): the last record stored under the key
Lookup(cs, page_url, default) ==
    LET hits == {j \in 1..Len(cs) : Get(cs[j], "url") = page_url}
    IN  IF hits = {} THEN default
        ELSE cs[CHOOSE j \in hits : \A k \in hits : k <= j]

\* an enrichment that keeps only the stubs found in the bulk reply
BulkEnrich_Dropping(results, cs) ==
    LET kept == SelectSeq(results,
                          LAMBDA r : \E j \in 1..Len(cs) : Get(cs[j], "url") = Get(r, "url"))
    IN  [i \in 1..Len(kept) |-> cs[CHOOSE j \in 1..Len(cs) :
                                      Get(cs[j], "url") = Get(kept[i], "url")]]

BulkEnrich(results, cs) ==
    [i \in 1..Len(results) |-> Lookup(cs, Get(results[i], "url"), results[i])]

BulkCall(results) ==
    OpCall("exa_fetch_contents", [urls |-> L(UrlsOf(results)), livecrawl |-> PyNone])

FetchCall(item) == OpCall("exa_fetch_content", [url |-> Get(item, "url")])

\* a fallback that stores no item for a failed fetch
FallbackItem_NoneOnFailure(res, item) == IF res.ok THEN res.val ELSE PyNone

\* try: enriched_results.append(content)  except Exception: enriched_results.append(item)
FallbackItem(res, item) == IF res.ok THEN res.val ELSE item

\* a fallback loop that passes over the stubs without a url
RECURSIVE FallbackRun_SkipNoUrl(_, _, _, _)
FallbackRun_SkipNoUrl(key, results, done, got) ==
    IF Len(done) = Len(results)
    THEN [enriched |-> done, fetched |-> got, waiting |-> FALSE]
    ELSE LET item == results[Len(done) + 1]
             snd == Send(key, FetchCall(item))
         IN  IF ~Truthy(Get(item, "url"))
             THEN FallbackRun_SkipNoUrl(key, results, Append(done, item),
                                        Append(got, Raise("Exception", <<"no url">>)))
             ELSE IF snd.ok
             THEN [enriched |-> done, fetched |-> got, waiting |-> TRUE,
                   call |-> FetchCall(item), request |-> snd.val]
             ELSE FallbackRun_SkipNoUrl(key, results, Append(done, FallbackItem(snd, item)),
                                        Append(got, snd))

\* the fallback loop from the stub after those in done, up to the next
\* request it issues or to its end
RECURSIVE FallbackRun(_, _, _, _)
FallbackRun(key, results, done, got) ==
    IF Len(done) = Len(results)
    THEN [enriched |-> done, fetched |-> got, waiting |-> FALSE]
    ELSE LET item == results[Len(done) + 1]
             snd == Send(key, FetchCall(item))
         IN  IF snd.ok
             THEN [enriched |-> done, fetched |-> got, waiting |-> TRUE,
                   call |-> FetchCall(item), request |-> snd.val]
             ELSE FallbackRun(key, results, Append(done, FallbackItem(snd, item)),
                              Append(got, snd))

(***************************************************************************)
(* The call_tool defined inside main (registered on legacy_app).  Its       *)
(* branches are those of the chain above, except that the urls message is   *)
(* written with a non-breaking hyphen (U+2011, shown as [U+2011]) and that  *)
(* the exa_fetch_contents and exa_fetch_subpages branches occur twice.      *)
(***************************************************************************)
main_branch_exa_fetch_contents(a) ==
    IF ~Truthy(Get(a, "urls")) \/ ~IsList(Get(a, "urls"))
    THEN ValueError("urls", "' must be a non[U+2011]empty list")
    ELSE Ok(OpCall("exa_fetch_contents",
                   [urls |-> Get(a, "urls"), livecrawl |-> Get(a, "livecrawl")]))

\* the if/elif chain of main.call_tool, in source order: the first branch
\* whose test holds is taken
main_Branch(n, a) ==
    IF n = "exa_web_search" THEN branch_exa_web_search(a)
    ELSE IF n = "exa_fetch_content" THEN branch_exa_fetch_content(a)
    ELSE IF n = "exa_find_similar_links" THEN branch_exa_find_similar_links(a)
    ELSE IF n = "exa_fetch_contents" THEN main_branch_exa_fetch_contents(a)
    ELSE IF n = "exa_fetch_subpages" THEN branch_exa_fetch_subpages(a)
    ELSE IF n = "exa_fetch_contents" THEN main_branch_exa_fetch_contents(a)
    ELSE IF n = "exa_fetch_subpages" THEN branch_exa_fetch_subpages(a)
    ELSE IF n = "exa_answer_question" THEN branch_exa_answer_question(a)
    ELSE IF n = "exa_research_start" THEN branch_exa_research_start(a)
    ELSE IF n = "exa_research_poll" THEN branch_exa_research_poll(a)
    ELSE Ok(NoCall)

(***************************************************************************)
(* A dispatch as a function of its inputs: the tool name, the arguments,    *)
(* the credential and the upstream responses rs it receives, in order.  It  *)
(* gives the requests issued and the outcome (NoOutcome while a request is  *)
(* still unanswered).                                                       *)
(***************************************************************************)
Ran(o, reqs) == [outcome |-> o, requests |-> reqs]

\* the per-url loop from the stub after those in done
RECURSIVE FallbackFold(_, _, _, _, _)
FallbackFold(key, results, done, rs, reqs) ==
    IF Len(done) = Len(results) THEN Ran(Success(L(done)), reqs)
    ELSE LET item == results[Len(done) + 1]
             snd == Send(key, FetchCall(item))
         IN  IF ~snd.ok
             THEN FallbackFold(key, results, Append(done, FallbackItem(snd, item)), rs, reqs)
             ELSE IF rs = <<>> THEN Ran(NoOutcome, Append(reqs, snd.val))
             ELSE FallbackFold(key, results,
                               Append(done, FallbackItem(Recv(FetchCall(item), Head(rs)), item)),
                               Tail(rs), Append(reqs, snd.val))

\* the enrichment of the stubs: the bulk fetch, then the loop if it failed
EnrichRun(key, results, rs, reqs) ==
    LET snd == Send(key, BulkCall(results)) IN
    IF ~snd.ok THEN FallbackFold(key, results, <<>>, rs, reqs)
    ELSE IF rs = <<>> THEN Ran(NoOutcome, Append(reqs, snd.val))
    ELSE LET res == Recv(BulkCall(results), Head(rs)) IN
         IF res.ok
         THEN Ran(Success(L(BulkEnrich(results, res.val.l))), Append(reqs, snd.val))
         ELSE FallbackFold(key, results, <<>>, Tail(rs), Append(reqs, snd.val))

\* the body of a call_tool whose chain gave br
call_tool_body(br, n, a, key, rs) ==
    IF ~br.ok THEN Ran(ExceptHandler(br.exc), <<>>)
    ELSE IF br.val = NoCall THEN Ran(Return(<<TextContent(UnknownToolText(n))>>), <<>>)
    ELSE LET snd == Send(key, br.val) IN
         IF ~snd.ok THEN Ran(ExceptHandler(snd.exc), <<>>)
         ELSE IF rs = <<>> THEN Ran(NoOutcome, <<snd.val>>)
         ELSE LET res == Recv(br.val, Head(rs)) IN
              IF ~res.ok THEN Ran(ExceptHandler(res.exc), <<snd.val>>)
              ELSE IF n = "exa_web_search" /\ Truthy(GetD(a, "include_text", B(FALSE)))
              THEN EnrichRun(key, res.val.l, Tail(rs), <<snd.val>>)
              ELSE Ran(Success(res.val), <<snd.val>>)

\* the call_tool registered by build_mcp_server
call_tool(n, a, key, rs) == call_tool_body(Branch(n, a), n, a, key, rs)

\* the call_tool defined inside main
main_call_tool(n, a, key, rs) == call_tool_body(main_Branch(n, a), n, a, key, rs)

(***************************************************************************)
(* Inputs: credentials, tool names, argument bags, upstream responses.     *)
(***************************************************************************)
Credentials == {"", "test-key"}

UnknownNames == {"search", "nonexistent_tool"}

ToolNames == OpNames \cup UnknownNames

\* marks an argument the caller did not pass
Absent == [t |-> "absent"]

\* the bags that take each key's value from ch[key], the key left out on Absent
BagsOf(ch) ==
    LET vals == UNION {ch[k] : k \in DOMAIN ch}
        fs == {f \in [DOMAIN ch -> vals] : \A k \in DOMAIN ch : f[k] \in ch[k]}
    IN  {[k \in {x \in DOMAIN ch : f[x] # Absent} |-> f[k]] : f \in fs}

ArgChoices(n) ==
    CASE n = "exa_web_search" ->
           [query |-> {Absent, S(""), S("q")},
            num_results |-> {Absent, I(-1), I(0), I(1)},
            include_text |-> {Absent, B(TRUE), B(FALSE)}]
      [] n = "exa_fetch_content" -> [url |-> {Absent, PyNone, S(""), S("a")}]
      [] n = "exa_find_similar_links" ->
           [url |-> {Absent, S(""), S("a")},
            include_text |-> {Absent, B(TRUE), B(FALSE)},
            num_results |-> {Absent, I(-1), I(0), I(1)}]
      [] n = "exa_fetch_contents" ->
           [urls |-> {Absent, L(<<>>), S("a"), L(<<S("a")>>), L(<<S("a"), S("b")>>)},
            livecrawl |-> {Absent, S("always"), S("sometimes")}]
      [] n = "exa_fetch_subpages" ->
           [url |-> {Absent, S(""), S("a")},
            subpages |-> {Absent, I(2)},
            subpage_target |-> {Absent, S(""), S("about"), I(0), I(7), L(<<S("about")>>)},
            livecrawl |-> {Absent, S("never")}]
      [] n = "exa_answer_question" ->
           [query |-> {Absent, S(""), S("q")}, include_text |-> {Absent, B(TRUE)}]
      [] n = "exa_research_start" ->
           [instructions |-> {Absent, S(""), S("do")},
            model |-> {Absent, S("exa-research")},
            output_schema |-> {Absent, D([type |-> S("object")])}]
      [] n = "exa_research_poll" -> [task_id |-> {Absent, S(""), S("t1")}]
      [] OTHER -> [query |-> {Absent, S("q")}]

ArgumentBags(n) == {D(b) : b \in BagsOf(ArgChoices(n))}

\* sequences over S of length at most n
RECURSIVE SeqsUpTo(_, _)
SeqsUpTo(S0, n) ==
    IF n = 0 THEN {<<>>}
    ELSE LET shorter == SeqsUpTo(S0, n - 1)
         IN  shorter \cup {Append(q, x) : q \in {r \in shorter : Len(r) = n - 1}, x \in S0}

Urls == {S("a"), S("b"), S("")}

SearchItems ==
    {D([title |-> S("T"), url |-> u, text |-> S("snip")]) : u \in Urls}
    \cup {D([title |-> S("T"), text |-> S("snip")]),
          D([url |-> S("a"), summary |-> S("sum")])}

ContentItems ==
    {D([title |-> S("P"), url |-> u, text |-> S("full")]) : u \in Urls}
    \cup {D([title |-> S("P"), text |-> S("full")]),
          D([title |-> S("P2"), url |-> S("a"), text |-> S("full2")])}

Results(q) == D([results |-> L(q)])

\* responses that make every operation raise
FailReplies == {NetFail, Http(401, EmptyDict), Http(500, NotJson), Http(200, NotJson),
                Http(200, L(<<>>)), Http(200, Results(<<S("junk")>>))}

\* a result list longer than the default num_results
LongResults ==
    << D([title |-> S("T1"), url |-> S("a"), text |-> S("snip")]),
       D([title |-> S("T2"), url |-> S("b"), text |-> S("snip")]),
       D([title |-> S("T3"), url |-> S("a"), summary |-> S("sum")]),
       D([title |-> S("T4"), url |-> S("b"), text |-> S("snip")]) >>

SearchReplies ==
    FailReplies \cup {Http(200, EmptyDict), Http(200, Results(LongResults))}
    \cup {Http(200, Results(q)) : q \in SeqsUpTo(SearchItems, MaxItems)}

ContentsReplies ==
    FailReplies \cup {Http(200, EmptyDict)}
    \cup {Http(200, Results(q)) : q \in SeqsUpTo(ContentItems, MaxItems)}

PageA == D([title |-> S("P"), url |-> S("a"), text |-> S("full")])

PageB == D([title |-> S("P"), url |-> S("b"), text |-> S("full")])

FetchReplies ==
    {NetFail, Http(401, NotJson), Http(200, Results(<<S("junk")>>)),
     Http(200, Results(<<>>)), Http(200, Results(<<PageA>>)),
     Http(200, Results(<<PageB, PageA>>))}

SubpagesReplies ==
    FetchReplies
    \cup {Http(200, Results(<<D([title |-> S("P"), url |-> S("a"), text |-> S("full"),
                                 subpages |-> L(q)])>>)) :
            q \in SeqsUpTo({PageB, D([url |-> S("a/x")])}, MaxItems)}

SimilarReplies ==
    FailReplies \cup {Http(200, EmptyDict)}
    \cup {Http(200, Results(q)) :
            q \in SeqsUpTo({D([title |-> S("T"), url |-> S("b"), score |-> I(1),
                               text |-> S("full")]),
                            D([url |-> S("a"), summary |-> S("sum")])}, MaxItems)}

PassThroughReplies ==
    {NetFail, Http(401, EmptyDict), Http(200, NotJson), Http(200, EmptyDict),
     Http(200, D([answer |-> S("yes"), citations |-> L(<<>>)])),
     Http(200, D([id |-> S("t1"), status |-> S("running")])),
     Http(200, S("Error: ")), Http(200, PyNone)}

\* search items with every combination of text and summary
TextVariants ==
    {D([title |-> S("T"), url |-> S("a")] @@ tx @@ sm) :
        tx \in {<<>>, [text |-> S("snip")], [text |-> S("")], [text |-> PyNone]},
        sm \in {<<>>, [summary |-> S("sum")], [summary |-> S("")]}}
    \cup {EmptyDict}

VariantReplies == {Http(200, Results(<<x>>)) : x \in TextVariants}

\* the responses to the single request of a tool or of a direct call
RepliesFor(op) ==
    CASE op = "exa_web_search" -> SearchReplies \cup VariantReplies
      [] op = "exa_fetch_contents" -> ContentsReplies
      [] op = "exa_fetch_content" ->
            FetchReplies \cup {Http(200, EmptyDict), Http(200, Results(<<EmptyDict>>)),
                               Http(200, D([results |-> PyNone]))}
      [] op = "exa_fetch_subpages" ->
            SubpagesReplies \cup {Http(200, EmptyDict), Http(200, Results(<<EmptyDict>>)),
                                  Http(200, D([results |-> PyNone]))}
      [] op = "exa_find_similar_links" ->
            SimilarReplies \cup VariantReplies \cup {Http(200, Results(LongResults))}
      [] OTHER -> PassThroughReplies

(***************************************************************************)
(* State machine.                                                          *)
(***************************************************************************)
\* the coroutines that can run call_tool at the same time
TaskIds == {1, 2}

\* the frame of a coroutine that has not started
IdleTask ==
    [pc |-> "idle", name |-> "", arguments |-> EmptyDict, opcall |-> NoCall,
     stubs |-> NoOutcome, contents |-> NoOutcome, fetched |-> <<>>,
     enriched |-> <<>>, requests |-> <<>>, replies |-> <<>>, outcome |-> NoOutcome]

Init ==
    /\ EXA_API_KEY \in Credentials
    /\ pc = "idle"
    /\ mode = "none"
    /\ name = ""
    /\ arguments = EmptyDict
    /\ opcall = NoCall
    /\ stubs = NoOutcome
    /\ contents = NoOutcome
    /\ fetched = <<>>
    /\ enriched = <<>>
    /\ requests = <<>>
    /\ replies = <<>>
    /\ outcome = NoOutcome
    /\ listed = <<>>
    /\ tasks = [i \in TaskIds |-> IdleTask]

Idle == pc = "idle"

\* the caller takes the outcome of the finished call; its frame is discarded
Collect ==
    /\ pc = "done"
    /\ pc' = "idle"
    /\ mode' = "none"
    /\ name' = ""
    /\ arguments' = EmptyDict
    /\ stubs' = NoOutcome
    /\ contents' = NoOutcome
    /\ fetched' = <<>>
    /\ enriched' = <<>>
    /\ requests' = <<>>
    /\ replies' = <<>>
    /\ outcome' = NoOutcome
    /\ UNCHANGED <<tasks, EXA_API_KEY, opcall, listed>>

\* list_tools(): returns the catalog
ListTools ==
    /\ listed' = list_tools
    /\ UNCHANGED <<tasks, EXA_API_KEY, pc, mode, name, arguments, opcall, stubs, contents,
                   fetched, enriched, requests, replies, outcome>>

\* the dispatch ends with outcome o
Finish(o) ==
    /\ pc' = "done"
    /\ opcall' = NoCall
    /\ outcome' = o

\* an await that sends its request a second time
Await_Twice(l, c, r) ==
    /\ pc' = l
    /\ opcall' = c
    /\ requests' = requests \o <<r, r>>
    /\ outcome' = NoOutcome

\* the dispatch issues request r of call c and waits at the await of label l
Await(l, c, r) ==
    /\ pc' = l
    /\ opcall' = c
    /\ requests' = Append(requests, r)
    /\ outcome' = NoOutcome

\* the except branch of the bulk fetch: the per-url loop
Fallback(results, got0) ==
    LET run == FallbackRun(EXA_API_KEY, results, <<>>, got0) IN
    /\ enriched' = run.enriched
    /\ fetched' = run.fetched
    /\ IF run.waiting
       THEN Await("await_fetch", run.call, run.request)
       ELSE Finish(Success(L(run.enriched))) /\ UNCHANGED requests

\* call_tool(name, arguments) from its entry to its first await or its return
CallTool(n, a) ==
    /\ Idle
    /\ mode' = "dispatch"
    /\ name' = n
    /\ arguments' = a
    /\ UNCHANGED <<stubs, contents, fetched, enriched, replies>>
    /\ LET br == Branch(n, a) IN
       IF ~br.ok
       THEN Finish(ExceptHandler(br.exc)) /\ requests' = <<>>
       ELSE IF br.val = NoCall
       THEN Finish(Return(<<TextContent(UnknownToolText(n))>>)) /\ requests' = <<>>
       ELSE LET snd == Send(EXA_API_KEY, br.val) IN
            IF ~snd.ok
            THEN Finish(ExceptHandler(snd.exc)) /\ requests' = <<>>
            ELSE /\ pc' = IF n = "exa_web_search" THEN "await_search" ELSE "await"
                 /\ opcall' = br.val
                 /\ requests' = <<snd.val>>
                 /\ outcome' = NoOutcome
    /\ UNCHANGED <<tasks, EXA_API_KEY, listed>>

\* the response to the request of a tool other than exa_web_search arrives
OpResponds(resp) ==
    /\ pc = "await"
    /\ replies' = Append(replies, resp)
    /\ LET res == Recv(opcall, resp) IN
       Finish(IF res.ok THEN Success(res.val) ELSE ExceptHandler(res.exc))
    /\ UNCHANGED <<tasks, EXA_API_KEY, mode, name, arguments, stubs, contents, fetched,
                   enriched, requests, listed>>

\* a search response after which the enrichment runs whatever include_text is
SearchResponds_AlwaysEnrich(resp) ==
    /\ pc = "await_search"
    /\ replies' = Append(replies, resp)
    /\ LET res == Recv(opcall, resp) IN
       /\ stubs' = res
       /\ IF ~res.ok
          THEN /\ Finish(ExceptHandler(res.exc))
               /\ UNCHANGED <<contents, fetched, enriched, requests>>
          ELSE LET snd == Send(EXA_API_KEY, BulkCall(res.val.l)) IN
               IF snd.ok
               THEN /\ Await("await_bulk", BulkCall(res.val.l), snd.val)
                    /\ UNCHANGED <<contents, fetched, enriched>>
               ELSE /\ contents' = snd
                    /\ Fallback(res.val.l, <<>>)
    /\ UNCHANGED <<tasks, EXA_API_KEY, mode, name, arguments, listed>>

\* a search response whose bulk fetch is not inside a try: a failure of
\* exa_fetch_contents before its request ends the dispatch
SearchResponds_BulkUnguarded(resp) ==
    /\ pc = "await_search"
    /\ replies' = Append(replies, resp)
    /\ LET res == Recv(opcall, resp) IN
       /\ stubs' = res
       /\ IF ~res.ok
          THEN /\ Finish(ExceptHandler(res.exc))
               /\ UNCHANGED <<contents, fetched, enriched, requests>>
          ELSE IF ~Truthy(GetD(arguments, "include_text", B(FALSE)))
          THEN /\ Finish(Success(res.val))
               /\ UNCHANGED <<contents, fetched, enriched, requests>>
          ELSE LET snd == Send(EXA_API_KEY, BulkCall(res.val.l)) IN
               IF snd.ok
               THEN /\ Await("await_bulk", BulkCall(res.val.l), snd.val)
                    /\ UNCHANGED <<contents, fetched, enriched>>
               ELSE /\ contents' = snd
                    /\ Finish(ExceptHandler(snd.exc))
                    /\ UNCHANGED <<fetched, enriched, requests>>
    /\ UNCHANGED <<tasks, EXA_API_KEY, mode, name, arguments, listed>>

\* the response to the search request arrives
SearchResponds(resp) ==
    /\ pc = "await_search"
    /\ replies' = Append(replies, resp)
    /\ LET res == Recv(opcall, resp) IN
       /\ stubs' = res
       /\ IF ~res.ok
          THEN /\ Finish(ExceptHandler(res.exc))
               /\ UNCHANGED <<contents, fetched, enriched, requests>>
          ELSE IF ~Truthy(GetD(arguments, "include_text", B(FALSE)))
          THEN /\ Finish(Success(res.val))
               /\ UNCHANGED <<contents, fetched, enriched, requests>>
          ELSE LET snd == Send(EXA_API_KEY, BulkCall(res.val.l)) IN
               IF snd.ok
               THEN /\ Await("await_bulk", BulkCall(res.val.l), snd.val)
                    /\ UNCHANGED <<contents, fetched, enriched>>
               ELSE /\ contents' = snd
                    /\ Fallback(res.val.l, <<>>)
    /\ UNCHANGED <<tasks, EXA_API_KEY, mode, name, arguments, listed>>

\* a bulk response after which the per-url loop runs even on success
BulkResponds_AlwaysFallback(resp) ==
    /\ pc = "await_bulk"
    /\ replies' = Append(replies, resp)
    /\ contents' = Recv(opcall, resp)
    /\ Fallback(stubs.val.l, <<>>)
    /\ UNCHANGED <<tasks, EXA_API_KEY, mode, name, arguments, stubs, listed>>

\* the response to the bulk contents request arrives
BulkResponds(resp) ==
    /\ pc = "await_bulk"
    /\ replies' = Append(replies, resp)
    /\ LET res == Recv(opcall, resp) IN
       /\ contents' = res
       /\ IF res.ok
          THEN /\ enriched' = BulkEnrich(stubs.val.l, res.val.l)
               /\ Finish(Success(L(BulkEnrich(stubs.val.l, res.val.l))))
               /\ UNCHANGED <<fetched, requests>>
          ELSE Fallback(stubs.val.l, <<>>)
    /\ UNCHANGED <<tasks, EXA_API_KEY, mode, name, arguments, stubs, listed>>

\* the response to a single-url request of the fallback loop arrives
FetchResponds(resp) ==
    /\ pc = "await_fetch"
    /\ replies' = Append(replies, resp)
    /\ LET res == Recv(opcall, resp)
           item == stubs.val.l[Len(enriched) + 1]
           run == FallbackRun(EXA_API_KEY, stubs.val.l,
                              Append(enriched, FallbackItem(res, item)),
                              Append(fetched, res))
       IN  /\ enriched' = run.enriched
           /\ fetched' = run.fetched
           /\ IF run.waiting
              THEN Await("await_fetch", run.call, run.request)
              ELSE Finish(Success(L(run.enriched))) /\ UNCHANGED requests
    /\ UNCHANGED <<tasks, EXA_API_KEY, mode, name, arguments, stubs, contents, listed>>

(***************************************************************************)
(* An operation function called directly (as the tests do), outside of     *)
(* call_tool: Python binds the keyword arguments to the signature first.   *)
(***************************************************************************)
Signature(op) ==
    CASE op = "exa_web_search" ->
           [required |-> "query", defaults |-> [num_results |-> I(3)]]
      [] op = "exa_find_similar_links" ->
           [required |-> "url",
            defaults |-> [include_text |-> B(FALSE), num_results |-> I(3)]]
      [] op = "exa_answer_question" ->
           [required |-> "query", defaults |-> [include_text |-> B(FALSE)]]
      [] op = "exa_research_start" ->
           [required |-> "instructions",
            defaults |-> [model |-> PyNone, output_schema |-> PyNone]]
      [] op = "exa_research_poll" ->
           [required |-> "task_id", defaults |-> [k \in {} |-> PyNone]]
      [] op = "exa_fetch_content" ->
           [required |-> "url", defaults |-> [k \in {} |-> PyNone]]
      [] op = "exa_fetch_contents" ->
           [required |-> "urls", defaults |-> [livecrawl |-> PyNone]]
      [] op = "exa_fetch_subpages" ->
           [required |-> "url",
            defaults |-> [subpages |-> I(5), subpage_target |-> PyNone,
                          livecrawl |-> PyNone]]

Bind(op, kw) ==
    IF Signature(op).required \notin DOMAIN kw
    THEN Raise("TypeError", <<"missing 1 required positional argument: '",
                              Signature(op).required, "'">>)
    ELSE Ok(OpCall(op, kw @@ Signature(op).defaults))

\* optional keyword arguments of direct calls
DirectOptions(op) ==
    CASE op \in {"exa_web_search"} -> [num_results |-> {Absent, I(-1), I(0), I(2)}]
      [] op = "exa_find_similar_links" ->
           [num_results |-> {Absent, I(2)}, include_text |-> {Absent, B(TRUE), B(FALSE)}]
      [] op = "exa_fetch_contents" ->
           [livecrawl |-> {Absent, PyNone, S("always"), S("sometimes")}]
      [] op = "exa_fetch_subpages" ->
           [subpage_target |-> {Absent, S("about"), L(<<>>), L(<<S("about")>>)},
            livecrawl |-> {Absent, S(""), S("sometimes")}]
      [] op = "exa_research_start" ->
           [model |-> {Absent, S(""), S("exa-research")},
            output_schema |-> {Absent, EmptyDict, D([type |-> S("object")])}]
      [] OTHER -> <<>>

DirectKwargs(op) ==
    BagsOf([k \in {Signature(op).required} |->
              IF op = "exa_fetch_contents"
              THEN {Absent, PyNone, L(<<>>), L(<<S("a")>>)}
              ELSE {Absent, PyNone, S(""), S("a")}]
           @@ DirectOptions(op))

\* await op(**kw) from its entry to its await or its exception
DirectCall(op, kw) ==
    /\ Idle
    /\ mode' = "direct"
    /\ name' = op
    /\ arguments' = D(kw)
    /\ UNCHANGED <<stubs, contents, fetched, enriched, replies>>
    /\ LET bnd == Bind(op, kw) IN
       IF ~bnd.ok
       THEN Finish(Escape(bnd.exc)) /\ requests' = <<>>
       ELSE LET snd == Send(EXA_API_KEY, bnd.val) IN
            IF ~snd.ok
            THEN Finish(Escape(snd.exc)) /\ requests' = <<>>
            ELSE /\ pc' = "await_direct"
                 /\ opcall' = bnd.val
                 /\ requests' = <<snd.val>>
                 /\ outcome' = NoOutcome
    /\ UNCHANGED <<tasks, EXA_API_KEY, listed>>

\* the response to the request of a directly called operation arrives
DirectResponds(resp) ==
    /\ pc = "await_direct"
    /\ replies' = Append(replies, resp)
    /\ LET res == Recv(opcall, resp) IN
       Finish(IF res.ok THEN Return(res.val) ELSE Escape(res.exc))
    /\ UNCHANGED <<tasks, EXA_API_KEY, mode, name, arguments, stubs, contents, fetched,
                   enriched, requests, listed>>

Next ==
    \/ ListTools
    \/ Collect
    \/ \E n \in ToolNames : \E a \in ArgumentBags(n) : CallTool(n, a)
    \/ \E resp \in RepliesFor(opcall.op) : OpResponds(resp)
    \/ \E resp \in SearchReplies : SearchResponds(resp)
    \/ \E resp \in ContentsReplies : BulkResponds(resp)
    \/ \E resp \in FetchReplies : FetchResponds(resp)
    \/ \E op \in OpNames : \E kw \in DirectKwargs(op) : DirectCall(op, kw)
    \/ \E resp \in RepliesFor(opcall.op) : DirectResponds(resp)

Spec == Init /\ [][Next]_vars

(***************************************************************************)
(* Cancellation.  The transport cancels the task running call_tool: the     *)
(* await the coroutine is suspended at raises asyncio.CancelledError, a     *)
(* BaseException.  Leaving `async with httpx.AsyncClient()` closes the      *)
(* client and with it the request in flight.  The exception then meets the  *)
(* handlers around the await: the `except Exception` of the enrichment      *)
(* (bulk fetch, per-url fetch) and the one of call_tool.                    *)
(***************************************************************************)
\* what the cancelled request got in place of a response
Cancelled == [kind |-> "cancelled"]

CancelledError == Raise("CancelledError", <<"">>)

\* the dispatch is cancelled at the await it is suspended at
Cancel ==
    /\ mode = "dispatch"
    /\ pc \in {"await", "await_search", "await_bulk", "await_fetch"}
    /\ replies' = Append(replies, Cancelled)
    /\ LET res == CancelledError
           caught == res.exc.cls \in ExceptionClasses
       IN  IF pc = "await_bulk" /\ caught
           THEN /\ contents' = res
                /\ Fallback(stubs.val.l, <<>>)
           ELSE IF pc = "await_fetch" /\ caught
           THEN LET item == stubs.val.l[Len(enriched) + 1]
                    run == FallbackRun(EXA_API_KEY, stubs.val.l,
                                       Append(enriched, FallbackItem(res, item)),
                                       Append(fetched, res))
                IN  /\ enriched' = run.enriched
                    /\ fetched' = run.fetched
                    /\ IF run.waiting
                       THEN Await("await_fetch", run.call, run.request)
                       ELSE Finish(Success(L(run.enriched))) /\ UNCHANGED requests
                    /\ UNCHANGED contents
           ELSE /\ Finish(ExceptHandler(res.exc))
                /\ UNCHANGED <<contents, fetched, enriched, requests>>
    /\ UNCHANGED <<tasks, EXA_API_KEY, mode, name, arguments, stubs, listed>>

NextCancel ==
    \/ Next
    \/ Cancel

SpecCancel == Init /\ [][NextCancel]_vars

(***************************************************************************)
(* Concurrent dispatches.  Each call of call_tool is a coroutine with its   *)
(* own frame: its parameters and its local variables (results, contents,    *)
(* enriched_results, the awaited call).  The module state they all read is  *)
(* EXA_API_KEY.  A frame steps exactly as the single dispatch above does.   *)
(***************************************************************************)
\* the frame returns or raises o
TaskFinish(f, o) == [f EXCEPT !.pc = "done", !.opcall = NoCall, !.outcome = o]

\* the frame issues request r of call c and waits at label l
TaskAwait(f, l, c, r) ==
    [f EXCEPT !.pc = l, !.opcall = c, !.requests = Append(@, r)]

\* the per-url loop of the frame, from its first stub
TaskFallback(f, key, results) ==
    LET run == FallbackRun(key, results, <<>>, <<>>)
        g == [f EXCEPT !.enriched = run.enriched, !.fetched = run.fetched]
    IN  IF run.waiting THEN TaskAwait(g, "await_fetch", run.call, run.request)
        ELSE TaskFinish(g, Success(L(run.enriched)))

\* call_tool(n, a) from its entry to its first await or its return
TaskStart(n, a, key) ==
    LET f == [IdleTask EXCEPT !.name = n, !.arguments = a]
        br == Branch(n, a)
    IN  IF ~br.ok THEN TaskFinish(f, ExceptHandler(br.exc))
        ELSE IF br.val = NoCall
        THEN TaskFinish(f, Return(<<TextContent(UnknownToolText(n))>>))
        ELSE LET snd == Send(key, br.val) IN
             IF ~snd.ok THEN TaskFinish(f, ExceptHandler(snd.exc))
             ELSE TaskAwait(f, IF n = "exa_web_search" THEN "await_search" ELSE "await",
                            br.val, snd.val)

\* a bulk step whose results list is shared by the coroutines: it enriches the
\* stubs another running dispatch has stored, when there are some
TaskBulk_SharedResults(f, key, res) ==
    LET others == {j \in TaskIds : /\ tasks[j].name # ""
                                   /\ tasks[j].stubs # NoOutcome
                                   /\ tasks[j].stubs.ok
                                   /\ tasks[j].stubs # f.stubs}
        shared == IF others = {} THEN f.stubs.val.l
                  ELSE tasks[CHOOSE j \in others : TRUE].stubs.val.l
        g == [f EXCEPT !.contents = res]
    IN  IF res.ok
        THEN TaskFinish([g EXCEPT !.enriched = BulkEnrich(shared, res.val.l)],
                        Success(L(BulkEnrich(shared, res.val.l))))
        ELSE TaskFallback(g, key, f.stubs.val.l)

\* the frame's bulk fetch has answered: the frame's own stubs are enriched
TaskBulk(f, key, res) ==
    LET g == [f EXCEPT !.contents = res] IN
    IF res.ok
    THEN TaskFinish([g EXCEPT !.enriched = BulkEnrich(f.stubs.val.l, res.val.l)],
                    Success(L(BulkEnrich(f.stubs.val.l, res.val.l))))
    ELSE TaskFallback(g, key, f.stubs.val.l)

\* the frame resumes from its await with the response resp
TaskRespond(f, key, resp) ==
    LET res == Recv(f.opcall, resp)
        g == [f EXCEPT !.replies = Append(@, resp)]
    IN  CASE f.pc = "await" ->
                TaskFinish(g, IF res.ok THEN Success(res.val) ELSE ExceptHandler(res.exc))
          [] f.pc = "await_search" ->
                LET h == [g EXCEPT !.stubs = res] IN
                IF ~res.ok THEN TaskFinish(h, ExceptHandler(res.exc))
                ELSE IF ~Truthy(GetD(f.arguments, "include_text", B(FALSE)))
                THEN TaskFinish(h, Success(res.val))
                ELSE LET snd == Send(key, BulkCall(res.val.l)) IN
                     IF snd.ok
                     THEN TaskAwait(h, "await_bulk", BulkCall(res.val.l), snd.val)
                     ELSE TaskFallback([h EXCEPT !.contents = snd], key, res.val.l)
          [] f.pc = "await_bulk" -> TaskBulk(g, key, res)
          [] f.pc = "await_fetch" ->
                LET item == f.stubs.val.l[Len(f.enriched) + 1]
                    run == FallbackRun(key, f.stubs.val.l,
                                       Append(f.enriched, FallbackItem(res, item)),
                                       Append(f.fetched, res))
                    h == [g EXCEPT !.enriched = run.enriched, !.fetched = run.fetched]
                IN  IF run.waiting
                    THEN TaskAwait(h, "await_fetch", run.call, run.request)
                    ELSE TaskFinish(h, Success(L(run.enriched)))

\* the dispatches started concurrently and the responses they receive
TaskCalls ==
    { <<"exa_web_search", D([query |-> S("q"), include_text |-> B(TRUE)])>>,
      <<"exa_web_search", D([query |-> S("r")])>>,
      <<"exa_fetch_content", D([url |-> S("a")])>>,
      <<"exa_fetch_contents", D([urls |-> L(<<>>)])>> }

TaskReplies(c) ==
    CASE c.op = "exa_web_search" ->
            {Http(500, NotJson),
             Http(200, Results(<<D([title |-> S("T"), url |-> S("a"), text |-> S("snip")])>>)),
             Http(200, Results(<<D([title |-> S("T"), url |-> S("b"), text |-> S("snip")]),
                                 D([title |-> S("U"), url |-> S("a"), summary |-> S("sum")])>>))}
      [] c.op = "exa_fetch_contents" ->
            {Http(401, EmptyDict), Http(200, Results(<<PageA>>)),
             Http(200, Results(<<PageB, PageA>>))}
      [] c.op = "exa_fetch_content" ->
            {NetFail, Http(200, Results(<<PageA>>)), Http(200, Results(<<PageB>>))}
      [] OTHER -> {}

\* task i is started
TaskCallTool(i, n, a) ==
    /\ tasks[i].pc = "idle"
    /\ tasks' = [tasks EXCEPT ![i] = TaskStart(n, a, EXA_API_KEY)]
    /\ UNCHANGED <<EXA_API_KEY, pc, mode, name, arguments, opcall, stubs, contents,
                   fetched, enriched, requests, replies, outcome, listed>>

\* the response to the request task i is waiting for arrives
TaskResponds(i, resp) ==
    /\ tasks[i].pc \in {"await", "await_search", "await_bulk", "await_fetch"}
    /\ tasks' = [tasks EXCEPT ![i] = TaskRespond(tasks[i], EXA_API_KEY, resp)]
    /\ UNCHANGED <<EXA_API_KEY, pc, mode, name, arguments, opcall, stubs, contents,
                   fetched, enriched, requests, replies, outcome, listed>>

NextConcurrent ==
    \/ \E i \in TaskIds : \E c \in TaskCalls : TaskCallTool(i, c[1], c[2])
    \/ \E i \in TaskIds : \E resp \in TaskReplies(tasks[i].opcall) : TaskResponds(i, resp)

SpecConcurrent == Init /\ [][NextConcurrent]_vars

(***************************************************************************)
(* Properties.                                                             *)
(***************************************************************************)
Dispatched == mode = "dispatch" /\ pc = "done"

\* the text of the single result of a finished dispatch
ResultText == outcome.value[1].text

IsErrorText(text) == text.head[1] = "Error: "

Contains(text, tok) == \E i \in 1..Len(text.head) : text.head[i] = tok

\* C1: every dispatch, whatever the tool name, the arguments and the upstream
\* behaviour, ends by returning a list of exactly one text result; no
\* exception escapes call_tool.
C1_OneTextResult ==
    mode = "dispatch" =>
        /\ outcome.kind # "raise"
        /\ pc = "done" =>
              /\ outcome.kind = "return"
              /\ Len(outcome.value) = 1
              /\ outcome.value[1].type = "text"

\* a dispatch whose upstream request failed at the network level has returned
C1_Witness ==
    /\ Dispatched
    /\ name = "exa_research_poll"
    /\ Len(replies) = 1
    /\ replies[1] = NetFail
    /\ outcome.kind = "return"
    /\ IsErrorText(ResultText)

\* a finished exa_web_search dispatch with include_text set whose search succeeded
Enriching ==
    /\ Dispatched
    /\ name = "exa_web_search"
    /\ Truthy(GetD(arguments, "include_text", B(FALSE)))
    /\ stubs # NoOutcome
    /\ stubs.ok

\* the list a finished successful dispatch returned, read back from its text
ReturnedList == ResultText.json.l

ReturnsList ==
    /\ outcome.kind = "return"
    /\ ~IsErrorText(ResultText)
    /\ ResultText.json.t = "list"

\* record r is what was fetched for stub i: a record of the bulk reply under
\* the stub's url, or the record of the stub's own single-url fetch
FetchedFor(i, r) ==
    \/ /\ contents.ok
       /\ \E j \in 1..Len(contents.val.l) :
             /\ contents.val.l[j] = r
             /\ Get(r, "url") = Get(stubs.val.l[i], "url")
    \/ /\ ~contents.ok
       /\ i <= Len(fetched)
       /\ fetched[i].ok
       /\ fetched[i].val = r

\* C2: an enriching search whose search call gave N stubs returns N elements,
\* element i being stub i unchanged or the content record fetched for stub i,
\* on the bulk path and on the fallback path alike.
C2_LengthAndOrder ==
    Enriching =>
        /\ ReturnsList
        /\ Len(ReturnedList) = Len(stubs.val.l)
        /\ \A i \in 1..Len(stubs.val.l) :
              \/ ReturnedList[i] = stubs.val.l[i]
              \/ FetchedFor(i, ReturnedList[i])

\* fallback path, two stubs, the first fetch succeeded and the second failed
C2_Witness ==
    /\ Enriching
    /\ ~contents.ok
    /\ Len(stubs.val.l) = 2
    /\ Len(fetched) = 2
    /\ fetched[1].ok
    /\ ~fetched[2].ok
    /\ ReturnedList = <<fetched[1].val, stubs.val.l[2]>>

InBulkReply(u) == \E j \in 1..Len(contents.val.l) : Get(contents.val.l[j], "url") = u

C4_FallbackPerStub ==
    (Enriching /\ ~contents.ok) =>
        LET n == Len(stubs.val.l)
            base == Len(requests) - n
        IN  /\ ReturnsList
            /\ Len(fetched) = n
            /\ base \in {1, 2}
            /\ ReturnedList = [i \in 1..n |-> IF fetched[i].ok THEN fetched[i].val
                                              ELSE stubs.val.l[i]]
            /\ \A i \in 1..n :
                  /\ requests[base + i].url = <<EXA_CONTENTS_ENDPOINT>>
                  /\ requests[base + i].payload =
                        D([urls |-> L(<<Get(stubs.val.l[i], "url")>>), text |-> B(TRUE)])

\* the bulk request got a 500, then the fetch for the first of two stubs
\* failed and the fetch for the second succeeded
C4_Witness ==
    /\ Enriching
    /\ Len(replies) = 4
    /\ replies[2] = Http(500, NotJson)
    /\ ~contents.ok
    /\ ~fetched[1].ok
    /\ fetched[2].ok
    /\ ReturnedList = <<stubs.val.l[1], fetched[2].val>>

\* the required argument of each tool
RequiredArgument(n) ==
    CASE n \in {"exa_web_search", "exa_answer_question"} -> "query"
      [] n \in {"exa_fetch_content", "exa_fetch_subpages", "exa_find_similar_links"} -> "url"
      [] n = "exa_fetch_contents" -> "urls"
      [] n = "exa_research_start" -> "instructions"
      [] n = "exa_research_poll" -> "task_id"

\* the required argument is missing or empty (for urls: or is not a list)
LacksRequired(n, a) ==
    \/ ~Truthy(Get(a, RequiredArgument(n)))
    \/ n = "exa_fetch_contents" /\ ~IsList(Get(a, "urls"))

\* the bag passes the argument checks of the tool's branch
PassesArgumentChecks(n, a) ==
    /\ ~LacksRequired(n, a)
    /\ n = "exa_fetch_subpages" =>
          ~Truthy(Get(a, "subpage_target")) \/ IsList(Get(a, "subpage_target"))

\* C5 as stated: with an empty credential every dispatch of a registered tool,
\* whatever its arguments, returns an error text containing EXA_API_KEY and
\* attempts no upstream request.
C5_Original ==
    (Dispatched /\ name \in OpNames /\ EXA_API_KEY = "") =>
        /\ outcome.kind = "return"
        /\ IsErrorText(ResultText)
        /\ Contains(ResultText, "EXA_API_KEY")
        /\ requests = <<>>

\* C5 amended: with an empty credential every dispatch of a registered tool
\* ends at once in an error text without any upstream request; the text
\* contains EXA_API_KEY when the arguments pass the argument checks of the
\* tool's branch, and is the argument error otherwise.
C5_Amended ==
    (mode = "dispatch" /\ name \in OpNames /\ EXA_API_KEY = "") =>
        /\ pc = "done"
        /\ requests = <<>>
        /\ outcome.kind = "return"
        /\ IsErrorText(ResultText)
        /\ PassesArgumentChecks(name, arguments) => Contains(ResultText, "EXA_API_KEY")
        /\ ~PassesArgumentChecks(name, arguments) =>
              /\ ~Contains(ResultText, "EXA_API_KEY")
              /\ Contains(ResultText, "Argument '")

\* an enriching search with valid arguments dispatched without a credential
C5_Witness ==
    /\ Dispatched
    /\ EXA_API_KEY = ""
    /\ name = "exa_web_search"
    /\ arguments = D([query |-> S("q"), include_text |-> B(TRUE)])
    /\ Contains(ResultText, "EXA_API_KEY")
    /\ requests = <<>>

\* C6: no request is issued while the credential is empty, every request
\* issued carries the credential as x-api-key, and an operation function
\* entered without a credential raises the credential error before any
\* other check.
C6_NoRequestWithoutKey ==
    /\ EXA_API_KEY = "" => requests = <<>> /\ pc \in {"idle", "done"}
    /\ \A i \in 1..Len(requests) :
          /\ EXA_API_KEY # ""
          /\ "x-api-key" \in DOMAIN requests[i].headers
          /\ requests[i].headers["x-api-key"] = EXA_API_KEY
    /\ (mode = "direct" /\ pc = "done" /\ EXA_API_KEY = ""
          /\ RequiredArgument(name) \in DOMAIN arguments.d) =>
          /\ outcome.kind = "raise"
          /\ outcome.exc.msg[1] = "EXA_API_KEY"

\* exa_fetch_contents([]) called directly without a credential
C6_Witness ==
    /\ mode = "direct"
    /\ pc = "done"
    /\ EXA_API_KEY = ""
    /\ name = "exa_fetch_contents"
    /\ arguments = D([urls |-> L(<<>>)])
    /\ outcome.kind = "raise"
    /\ requests = <<>>

RegisteredNames == {list_tools[i].name : i \in 1..Len(list_tools)}

\* C7: a dispatch under a name that is not registered returns at once the
\* single text "Error: Unknown tool '<name>'", raises nothing and issues no
\* request, whatever the arguments and the credential.
C7_UnknownTool ==
    (mode = "dispatch" /\ name \notin RegisteredNames) =>
        /\ pc = "done"
        /\ requests = <<>>
        /\ outcome.kind = "return"
        /\ Len(outcome.value) = 1
        /\ outcome.value[1].type = "text"
        /\ ResultText.head = <<"Error: ", "Unknown tool '", name, "'">>
        /\ ResultText.json = NoJson

\* the name "search" dispatched with arguments and without a credential
C7_Witness ==
    /\ Dispatched
    /\ name = "search"
    /\ EXA_API_KEY = ""
    /\ arguments = D([query |-> S("q")])
    /\ outcome.kind = "return"
    /\ Contains(ResultText, "Unknown tool '")

\* C8: the catalog has 8 descriptors with pairwise distinct names, what
\* list_tools returned is that catalog whatever was dispatched before, and a
\* dispatch answers with the Unknown-tool text exactly for the names that
\* are not in the catalog.
C8_CatalogMatchesDispatch ==
    /\ Len(list_tools) = 8
    /\ \A i, j \in 1..Len(list_tools) :
          list_tools[i].name = list_tools[j].name => i = j
    /\ listed # <<>> => listed = list_tools
    /\ Dispatched =>
          (name \in RegisteredNames <=> ~Contains(ResultText, "Unknown tool '"))

\* the catalog has been listed and a registered tool has answered
C8_Witness ==
    /\ listed # <<>>
    /\ Dispatched
    /\ name = "exa_research_poll"
    /\ Len(replies) = 1
    /\ ~IsErrorText(ResultText)

\* C9: a dispatch of a registered tool whose required argument is missing or
\* empty (urls: or not a list) ends at once in an "Error: " text that names
\* the argument, without any upstream request.
C9_RequiredArgumentChecked ==
    (mode = "dispatch" /\ name \in OpNames /\ LacksRequired(name, arguments)) =>
        /\ pc = "done"
        /\ requests = <<>>
        /\ outcome.kind = "return"
        /\ IsErrorText(ResultText)
        /\ Contains(ResultText, "Argument '")
        /\ Contains(ResultText, RequiredArgument(name))

\* exa_fetch_contents dispatched with urls that is a string, credential present
C9_Witness ==
    /\ Dispatched
    /\ EXA_API_KEY # ""
    /\ name = "exa_fetch_contents"
    /\ Get(arguments, "urls") = S("a")
    /\ IsErrorText(ResultText)
    /\ Contains(ResultText, "urls")
    /\ requests = <<>>

DirectStarted == mode = "direct" /\ pc \in {"await_direct", "done"}

\* the required argument of a direct call is left out, None or empty
DirectLacksRequired ==
    \/ RequiredArgument(name) \notin DOMAIN arguments.d
    \/ ~Truthy(Get(arguments, RequiredArgument(name)))

\* C10 as stated: every operation function called directly with a credential
\* and with its required argument empty or missing fails before any request.
C10_Original ==
    (DirectStarted /\ EXA_API_KEY # "" /\ DirectLacksRequired) =>
        /\ requests = <<>>
        /\ pc = "done"
        /\ outcome.kind = "raise"

\* C10 amended: called directly with a credential, exa_fetch_contents with an
\* empty urls fails with its urls error before any request, and a call that
\* leaves the required argument out fails at the call before any request;
\* the other seven functions do not check the argument: given an empty
\* value they issue their request.
C10_Amended ==
    (DirectStarted /\ EXA_API_KEY # "" /\ DirectLacksRequired) =>
        IF RequiredArgument(name) \notin DOMAIN arguments.d
        THEN /\ requests = <<>>
             /\ pc = "done"
             /\ outcome.kind = "raise"
             /\ outcome.exc.cls = "TypeError"
        ELSE IF name = "exa_fetch_contents"
        THEN /\ requests = <<>>
             /\ pc = "done"
             /\ outcome.kind = "raise"
             /\ outcome.exc.msg[2] = "urls"
        ELSE /\ Len(requests) = 1
             /\ requests[1].headers["x-api-key"] = EXA_API_KEY

\* exa_fetch_contents([]) called directly with a credential
C10_Witness ==
    /\ mode = "direct"
    /\ pc = "done"
    /\ EXA_API_KEY # ""
    /\ name = "exa_fetch_contents"
    /\ arguments = D([urls |-> L(<<>>)])
    /\ outcome.kind = "raise"
    /\ requests = <<>>

\* an exa_fetch_subpages dispatch whose subpage_target is given and is not a list
NonListTarget ==
    /\ mode = "dispatch"
    /\ name = "exa_fetch_subpages"
    /\ "subpage_target" \in DOMAIN arguments.d
    /\ ~IsList(Get(arguments, "subpage_target"))

\* C11 as stated: a dispatch of exa_fetch_subpages with any non-list
\* subpage_target, whatever the other arguments, returns an error text that
\* mentions subpage_target and issues no upstream request.
C11_Original ==
    NonListTarget =>
        /\ requests = <<>>
        /\ pc = "done" =>
              /\ IsErrorText(ResultText)
              /\ Contains(ResultText, "subpage_target")

\* C11: a dispatch of exa_fetch_subpages with a non-empty url and a truthy
\* non-list subpage_target returns an error text that mentions subpage_target
\* and issues no request.  Without a url the error names url.  A falsy non-list
\* subpage_target ("" or 0) passes as if it were not provided: with a url and a
\* credential the request is issued, without subpage_target in its payload.
C11_Amended ==
    NonListTarget =>
        IF ~Truthy(Get(arguments, "url"))
        THEN /\ requests = <<>>
             /\ pc = "done" => /\ IsErrorText(ResultText)
                               /\ Contains(ResultText, "url")
                               /\ ~Contains(ResultText, "subpage_target")
        ELSE IF Truthy(Get(arguments, "subpage_target"))
        THEN /\ requests = <<>>
             /\ pc = "done" => /\ IsErrorText(ResultText)
                               /\ Contains(ResultText, "subpage_target")
        ELSE /\ EXA_API_KEY # "" =>
                  /\ Len(requests) = 1
                  /\ "subpage_target" \notin DOMAIN requests[1].payload.d
             /\ pc = "done" => ~Contains(ResultText, "subpage_target")

\* a dispatch with a url and subpage_target 7 has returned the subpage_target
\* error without a request
C11_Witness ==
    /\ NonListTarget
    /\ pc = "done"
    /\ Get(arguments, "url") = S("a")
    /\ Get(arguments, "subpage_target") = I(7)
    /\ Contains(ResultText, "subpage_target")
    /\ requests = <<>>

\* a finished call of one of the two operations that limit their results,
\* dispatched or direct, whose operation function returned
Limited ==
    /\ pc = "done"
    /\ name \in {"exa_web_search", "exa_find_similar_links"}
    /\ Len(replies) >= 1
    /\ IF mode = "direct" THEN outcome.kind = "return"
       ELSE IF name = "exa_web_search" THEN stubs # NoOutcome /\ stubs.ok
       ELSE ~IsErrorText(ResultText)

\* the list the operation function returned
LimitedList ==
    IF mode = "direct" THEN outcome.value.l
    ELSE IF name = "exa_web_search" THEN stubs.val.l
    ELSE ResultText.json.l

\* the result list of the upstream response
UpstreamList == GetD(replies[1].data, "results", L(<<>>)).l

\* the limit in force: the num_results given, or 3
Limit == GetD(arguments, "num_results", I(3)).n

Min(x, y) == IF x <= y THEN x ELSE y

Max(x, y) == IF x >= y THEN x ELSE y

\* the returned list repeats, item by item, the head of the upstream list
IsPrefix ==
    /\ Len(LimitedList) <= Len(UpstreamList)
    /\ \A i \in 1..Len(LimitedList) :
          /\ Get(LimitedList[i], "title") = Get(UpstreamList[i], "title")
          /\ Get(LimitedList[i], "url") = Get(UpstreamList[i], "url")

\* C12 as stated: for every integer num_results the two operations return a
\* prefix of the upstream list of exactly min(num_results, k) items, the limit
\* being 3 when num_results is omitted.
C12_Original ==
    Limited =>
        /\ IsPrefix
        /\ Len(LimitedList) <= Limit
        /\ Len(LimitedList) = Min(Limit, Len(UpstreamList))

\* C12: for every non-negative integer num_results and every upstream list of
\* k items, exa_web_search and exa_find_similar_links return the prefix of the
\* upstream list with exactly min(num_results, k) items; the limit is 3 when
\* num_results is omitted.  A negative num_results -m returns the prefix that
\* leaves out the last m items, max(k - m, 0) items.
C12_Amended ==
    Limited =>
        /\ IsPrefix
        /\ Limit >= 0 => Len(LimitedList) = Min(Limit, Len(UpstreamList))
        /\ Limit < 0 => Len(LimitedList) = Max(Len(UpstreamList) + Limit, 0)

\* a dispatch without num_results has cut an upstream list of 4 items to 3
C12_Witness ==
    /\ Limited
    /\ mode = "dispatch"
    /\ "num_results" \notin DOMAIN arguments.d
    /\ Len(UpstreamList) = 4
    /\ Len(LimitedList) = 3

\* field k of item is present and is neither null nor the empty string
PresentNonEmpty(item, k) ==
    /\ k \in DOMAIN item.d
    /\ item.d[k] # PyNone
    /\ item.d[k] # S("")

\* the snippet the upstream item calls for
ExpectedSnippet(item) ==
    IF PresentNonEmpty(item, "text") THEN item.d["text"]
    ELSE IF PresentNonEmpty(item, "summary") THEN item.d["summary"]
    ELSE S("")

\* C13: every item returned by exa_web_search has a snippet: the upstream
\* item's text when that is present and non-empty, otherwise its summary when
\* that is present and non-empty, otherwise the empty string; never absent or
\* null.
C13_SnippetFallback ==
    (Limited /\ name = "exa_web_search") =>
        \A i \in 1..Len(LimitedList) :
            /\ "snippet" \in DOMAIN LimitedList[i].d
            /\ LimitedList[i].d["snippet"] # PyNone
            /\ LimitedList[i].d["snippet"] = ExpectedSnippet(UpstreamList[i])

\* a direct search has returned the summary of an item whose text is empty
C13_Witness ==
    /\ Limited
    /\ name = "exa_web_search"
    /\ mode = "direct"
    /\ Len(LimitedList) = 1
    /\ Get(UpstreamList[1], "text") = S("")
    /\ Get(UpstreamList[1], "summary") = S("sum")
    /\ LimitedList[1].d["snippet"] = S("sum")

\* the include_text in force for a call of exa_find_similar_links
IncludeText == GetD(arguments, "include_text", B(FALSE))

\* C14: exa_find_similar_links with include_text false returns every item with
\* a text key whose value is null, even when the upstream item carries text or
\* summary; with include_text true the text is the upstream text, falling back
\* to the summary (and to the empty string when both are missing or empty).
C14_SimilarText ==
    (Limited /\ name = "exa_find_similar_links") =>
        \A i \in 1..Len(LimitedList) :
            /\ "text" \in DOMAIN LimitedList[i].d
            /\ ~Truthy(IncludeText) => LimitedList[i].d["text"] = PyNone
            /\ Truthy(IncludeText) =>
                  LimitedList[i].d["text"] = ExpectedSnippet(UpstreamList[i])

\* a call with include_text false has returned a null text for an upstream
\* item that carried a text
C14_Witness ==
    /\ Limited
    /\ name = "exa_find_similar_links"
    /\ Get(arguments, "include_text") = B(FALSE)
    /\ Len(LimitedList) >= 1
    /\ Get(UpstreamList[1], "text") = S("snip")
    /\ LimitedList[1].d["text"] = PyNone

\* a call with include_text true has returned the summary of an upstream item
\* without text
C14_WitnessTrue ==
    /\ Limited
    /\ name = "exa_find_similar_links"
    /\ Get(arguments, "include_text") = B(TRUE)
    /\ Len(LimitedList) >= 1
    /\ "text" \notin DOMAIN UpstreamList[1].d
    /\ LimitedList[1].d["text"] = S("sum")

\* a finished call of exa_fetch_content or exa_fetch_subpages, dispatched or
\* direct, whose request got a 2xx response with a JSON object
FetchedOne ==
    /\ pc = "done"
    /\ name \in {"exa_fetch_content", "exa_fetch_subpages"}
    /\ Len(replies) = 1
    /\ replies[1].kind = "http"
    /\ replies[1].status = 200
    /\ IsDict(replies[1].data)

\* the call failed with a message that has the token tok
FailedWith(tok) ==
    IF mode = "direct"
    THEN outcome.kind = "raise" /\ \E i \in 1..Len(outcome.exc.msg) : outcome.exc.msg[i] = tok
    ELSE outcome.kind = "return" /\ IsErrorText(ResultText) /\ Contains(ResultText, tok)

\* the content record the call returned (the page, for exa_fetch_subpages)
ReturnedRecord ==
    LET v == IF mode = "direct" THEN outcome.value ELSE ResultText.json
    IN  IF name = "exa_fetch_subpages" THEN v.d["page"] ELSE v

CallSucceeded ==
    IF mode = "direct" THEN outcome.kind = "return"
    ELSE outcome.kind = "return" /\ ~IsErrorText(ResultText)

\* C15: exa_fetch_content and exa_fetch_subpages, given a successful upstream
\* response whose results list is empty or absent, fail with the 'No content
\* returned' error; given a non-empty list they use only its first element.
C15_NoContent ==
    FetchedOne =>
        LET r == GetD(replies[1].data, "results", L(<<>>)) IN
        /\ (r = L(<<>>) \/ r = PyNone) => FailedWith("No content returned")
        /\ (IsList(r) /\ Len(r.l) > 0 /\ IsDict(r.l[1])) =>
              /\ CallSucceeded
              /\ ReturnedRecord = D([title |-> Get(r.l[1], "title"),
                                     url |-> Get(r.l[1], "url"),
                                     text |-> Get(r.l[1], "text")])

\* a direct exa_fetch_subpages call whose response had no results key has
\* raised the no-content error
C15_Witness ==
    /\ FetchedOne
    /\ mode = "direct"
    /\ name = "exa_fetch_subpages"
    /\ replies[1].data = EmptyDict
    /\ FailedWith("No content returned")

\* a dispatched exa_fetch_content whose response had two results has returned
\* the first
C15_WitnessFirst ==
    /\ FetchedOne
    /\ mode = "dispatch"
    /\ name = "exa_fetch_content"
    /\ replies[1].data = Results(<<PageB, PageA>>)
    /\ CallSucceeded
    /\ ReturnedRecord = PageB

\* a call of exa_fetch_contents, dispatched or direct, with an empty urls list
EmptyUrlsCall ==
    /\ mode \in {"direct", "dispatch"}
    /\ name = "exa_fetch_contents"
    /\ Get(arguments, "urls") = L(<<>>)

\* C16: exa_fetch_contents called with an empty urls list fails, for every
\* livecrawl value, and issues no upstream request; no request with an empty
\* urls list is ever sent, the bulk fetch of an enrichment included.
C16_EmptyUrlsFails ==
    /\ EmptyUrlsCall =>
          /\ requests = <<>>
          /\ pc = "done"
          /\ IF mode = "direct" THEN outcome.kind = "raise"
             ELSE outcome.kind = "return" /\ IsErrorText(ResultText)
    /\ \A i \in 1..Len(requests) :
          IsDict(requests[i].payload) => Get(requests[i].payload, "urls") # L(<<>>)
    /\ (Enriching /\ UrlsOf(stubs.val.l) = <<>>) =>
          /\ contents # NoOutcome
          /\ ~contents.ok

\* a direct call with a credential, an empty urls list and a livecrawl value
\* has raised the urls error without a request
C16_Witness ==
    /\ EmptyUrlsCall
    /\ mode = "direct"
    /\ EXA_API_KEY # ""
    /\ Get(arguments, "livecrawl") = S("always")
    /\ outcome.kind = "raise"
    /\ outcome.exc.msg[2] = "urls"
    /\ requests = <<>>

\* a response with a non-2xx status
NonOk(resp) == resp.kind = "http" /\ ~(resp.status >= 200 /\ resp.status < 300)

\* C17 as stated: if any upstream request of a dispatch received a non-2xx
\* status, the dispatch returns a text beginning with 'Error: '.
C17_Original ==
    (Dispatched /\ \E i \in 1..Len(replies) : NonOk(replies[i])) =>
        IsErrorText(ResultText)

\* C17: a non-2xx status on the first request of a dispatch (the only request
\* of every tool other than exa_web_search, the search request of
\* exa_web_search) gives a text beginning with 'Error: ' that carries the
\* status, and makes a direct call raise the HTTP status error.  A non-2xx
\* status on a contents request of the enrichment (bulk or single-url) is
\* absorbed: the dispatch still returns its list.
C17_Amended ==
    /\ (Dispatched /\ Len(replies) >= 1 /\ NonOk(replies[1])) =>
          /\ IsErrorText(ResultText)
          /\ Contains(ResultText, ToString(replies[1].status))
    /\ (mode = "direct" /\ pc = "done" /\ Len(replies) = 1 /\ NonOk(replies[1])) =>
          /\ outcome.kind = "raise"
          /\ outcome.exc.cls = "HTTPStatusError"
    /\ (Enriching /\ \E i \in 2..Len(replies) : NonOk(replies[i])) =>
          /\ ReturnsList
          /\ Len(ReturnedList) = Len(stubs.val.l)

\* a dispatch of exa_answer_question whose request got a 401 has returned the
\* error text
C17_Witness ==
    /\ Dispatched
    /\ name = "exa_answer_question"
    /\ Len(replies) = 1
    /\ replies[1] = Http(401, EmptyDict)
    /\ IsErrorText(ResultText)

\* an enrichment whose bulk request got a 401 and whose single-url request got
\* a 401 has returned its list
C17_WitnessAbsorbed ==
    /\ Enriching
    /\ Len(replies) = 3
    /\ NonOk(replies[2])
    /\ NonOk(replies[3])
    /\ ReturnsList

\* v is a dict with every key of ks
HasKeys(v, ks) == IsDict(v) /\ ks \subseteq DOMAIN v.d

\* v is a list whose items all have every key of ks
AllHaveKeys(v, ks) == IsList(v) /\ \A i \in 1..Len(v.l) : HasKeys(v.l[i], ks)

\* the value a finished successful call returned
ReturnedValue == IF mode = "direct" THEN outcome.value ELSE ResultText.json

\* C18: every result of every operation carries all declared field names of
\* its shape as keys, for every upstream JSON object: title/url/snippet for
\* search results (title/url/text once enriched into content records),
\* title/url/text for content records, page/subpages for the subpage bundle,
\* title/url/score/text for similar links, answer/citations for
\* exa_answer_question, id for exa_research_start and id/status for
\* exa_research_poll.
C18_DeclaredKeys ==
    (pc = "done" /\ mode \in {"direct", "dispatch"} /\ CallSucceeded
       /\ name \in OpNames /\ Len(replies) >= 1 /\ IsDict(replies[1].data)) =>
        LET v == ReturnedValue IN
        CASE name = "exa_web_search" ->
                 /\ IsList(v)
                 /\ \A i \in 1..Len(v.l) :
                       \/ HasKeys(v.l[i], {"title", "url", "snippet"})
                       \/ HasKeys(v.l[i], {"title", "url", "text"})
          [] name = "exa_fetch_content" -> HasKeys(v, {"title", "url", "text"})
          [] name = "exa_fetch_contents" -> AllHaveKeys(v, {"title", "url", "text"})
          [] name = "exa_fetch_subpages" ->
                 /\ HasKeys(v, {"page", "subpages"})
                 /\ HasKeys(v.d["page"], {"title", "url", "text"})
                 /\ AllHaveKeys(v.d["subpages"], {"title", "url", "text"})
          [] name = "exa_find_similar_links" ->
                 AllHaveKeys(v, {"title", "url", "score", "text"})
          [] name = "exa_answer_question" -> HasKeys(v, {"answer", "citations"})
          [] name = "exa_research_start" -> HasKeys(v, {"id"})
          [] name = "exa_research_poll" -> HasKeys(v, {"id", "status"})

\* the same statement for the operations that build their result themselves
C18_BuiltShapes ==
    name \notin {"exa_answer_question", "exa_research_start", "exa_research_poll"}
        => C18_DeclaredKeys

\* the finished dispatch failed: its tool is unknown, its arguments were
\* rejected, its operation raised before the request, or the operation raised
\* on the response to its first request
DispatchFailed ==
    LET br == Branch(name, arguments) IN
    \/ ~br.ok
    \/ br.val = NoCall
    \/ ~Send(EXA_API_KEY, br.val).ok
    \/ Len(replies) >= 1 /\ ~Recv(br.val, replies[1]).ok

\* C19: the leading 'Error: ' marker separates the two outcomes of call_tool
\* exactly: the text of every failed dispatch (validation, credential,
\* upstream, network, no content, unknown tool) begins with 'Error: ', and the
\* text of no successful dispatch does, whatever the upstream returned.
C19_MarkerSeparates ==
    Dispatched =>
        /\ outcome.kind = "return"
        /\ DispatchFailed <=> IsErrorText(ResultText)
        /\ IsErrorText(ResultText) <=> ResultText.json = NoJson

\* a dispatch whose upstream body was the JSON string "Error: " has succeeded
\* with a text that does not begin with the marker
C19_Witness ==
    /\ Dispatched
    /\ Len(replies) = 1
    /\ replies[1] = Http(200, S("Error: "))
    /\ ~DispatchFailed
    /\ ResultText.json = S("Error: ")
    /\ ~IsErrorText(ResultText)

\* a dispatch that got no content has failed with the marker
C19_WitnessFailed ==
    /\ Dispatched
    /\ name = "exa_fetch_content"
    /\ Len(replies) = 1
    /\ replies[1] = Http(200, Results(<<>>))
    /\ DispatchFailed
    /\ IsErrorText(ResultText)

IsSearchRequest(r) == r.url = <<EXA_SEARCH_ENDPOINT>>

\* the request of exa_fetch_contents
IsBulkRequest(r) == r.url = <<EXA_CONTENTS_ENDPOINT>> /\ r.timeout = 60

\* the request of exa_fetch_content
IsSingleRequest(r) == r.url = <<EXA_CONTENTS_ENDPOINT>> /\ r.timeout = 30

SearchRequests == {i \in 1..Len(requests) : IsSearchRequest(requests[i])}

BulkRequests == {i \in 1..Len(requests) : IsBulkRequest(requests[i])}

SingleRequests == {i \in 1..Len(requests) : IsSingleRequest(requests[i])}

\* the number of stubs of the search of the current dispatch
StubCount == IF stubs # NoOutcome /\ stubs.ok THEN Len(stubs.val.l) ELSE 0

\* C20: no upstream call is retried.  Within one dispatch every tool other than
\* exa_web_search issues at most one request; exa_web_search issues at most
\* one search request, at most one bulk contents request and at most one
\* single-url contents request per stub, so at most N + 2 requests for N
\* stubs.  A request is issued only once the previous one is answered, and a
\* failed one is not issued again.
C20_NoRetry ==
    mode = "dispatch" =>
        /\ Len(replies) <= Len(requests)
        /\ Len(requests) <= Len(replies) + 1
        /\ pc = "done" => Len(requests) = Len(replies)
        /\ name # "exa_web_search" => Len(requests) <= 1
        /\ name = "exa_web_search" =>
              /\ Cardinality(SearchRequests) <= 1
              /\ Cardinality(BulkRequests) <= 1
              /\ Cardinality(SingleRequests) <= StubCount
              /\ Cardinality(SingleRequests) <=
                    Len(enriched) + (IF pc = "await_fetch" THEN 1 ELSE 0)
              /\ Len(requests) <= StubCount + 2
              /\ SearchRequests \cup BulkRequests \cup SingleRequests
                    = 1..Len(requests)

\* an enrichment of 2 stubs has ended after 4 requests: the search, the failed
\* bulk fetch and one fetch per stub, the first of which failed
C20_Witness ==
    /\ Enriching
    /\ StubCount = 2
    /\ Len(requests) = 4
    /\ Cardinality(SingleRequests) = 2
    /\ NonOk(replies[2])
    /\ NonOk(replies[3])

\* an exa_web_search dispatch that has entered the fallback loop: its bulk
\* fetch has failed
InFallback ==
    /\ mode = "dispatch"
    /\ name = "exa_web_search"
    /\ stubs # NoOutcome
    /\ stubs.ok
    /\ contents # NoOutcome
    /\ ~contents.ok

\* the requests issued before the first single-url request
BeforeSingles == Len(requests) - Cardinality(SingleRequests)

\* C21: in the fallback path the single-url fetches are issued one at a time in
\* stub order, each only after the previous one has completed, and exactly one
\* fetch is attempted for every stub: the k-th single-url request is for the
\* url of stub k, whatever happened to the fetches before it.
C21_SequentialFallback ==
    InFallback =>
        /\ Len(requests) <= Len(replies) + 1
        /\ Cardinality(SingleRequests) =
              Len(fetched) + (IF pc = "await_fetch" THEN 1 ELSE 0)
        /\ \A k \in 1..Cardinality(SingleRequests) :
              /\ IsSingleRequest(requests[BeforeSingles + k])
              /\ Get(requests[BeforeSingles + k].payload, "urls")
                    = L(<<Get(stubs.val.l[k], "url")>>)
        /\ pc = "done" =>
              /\ Cardinality(SingleRequests) = Len(stubs.val.l)
              /\ Len(fetched) = Len(stubs.val.l)

\* a fallback over 2 stubs has ended: the fetch for the first stub failed and
\* the fetch for the second was issued after it and succeeded
C21_Witness ==
    /\ InFallback
    /\ pc = "done"
    /\ Len(stubs.val.l) = 2
    /\ Cardinality(SingleRequests) = 2
    /\ ~fetched[1].ok
    /\ fetched[2].ok

EnrichmentStarted ==
    /\ mode = "dispatch"
    /\ name = "exa_web_search"
    /\ Truthy(GetD(arguments, "include_text", B(FALSE)))
    /\ stubs # NoOutcome
    /\ stubs.ok

\* the url of every stub, in stub order
StubUrls == [i \in 1..Len(stubs.val.l) |-> Get(stubs.val.l[i], "url")]

\* the urls of the stubs that have one
NonEmptyStubUrls == SelectSeq(StubUrls, LAMBDA u : Truthy(u))

\* C23 as stated: once the search of an include_text dispatch has returned N
\* stubs, exactly one bulk contents request is made and its urls list is the
\* urls of all N stubs in stub order, for every N >= 0 and whatever the urls.
C23_Original ==
    EnrichmentStarted =>
        /\ Cardinality(BulkRequests) = 1
        /\ \A i \in BulkRequests : Get(requests[i].payload, "urls") = L(StubUrls)

\* C23: once the search of an include_text dispatch has returned its stubs,
\* exa_fetch_contents is called once with the non-empty urls of the stubs in
\* stub order (stubs with an absent or empty url are left out).  When that
\* list is not empty exactly one bulk request is issued, right after the
\* search, with that list; when it is empty (no stubs, or none with a url) the
\* call fails its urls check and no bulk request is issued.
C23_Amended ==
    EnrichmentStarted =>
        IF NonEmptyStubUrls # <<>>
        THEN /\ BulkRequests = {2}
             /\ Get(requests[2].payload, "urls") = L(NonEmptyStubUrls)
        ELSE /\ BulkRequests = {}
             /\ contents # NoOutcome
             /\ ~contents.ok
             /\ contents.exc.msg[2] = "urls"

\* the search returned one stub with a url and one without: the bulk request
\* carries the one url
C23_Witness ==
    /\ EnrichmentStarted
    /\ Len(stubs.val.l) = 2
    /\ Get(stubs.val.l[1], "url") = PyNone
    /\ Get(stubs.val.l[2], "url") = S("a")
    /\ BulkRequests = {2}
    /\ Get(requests[2].payload, "urls") = L(<<S("a")>>)

\* the requests to the contents endpoint, bulk or single-url
ContentsRequests == BulkRequests \cup SingleRequests

\* C24: in an exa_web_search dispatch a contents request is issued only if
\* include_text is set and the search has succeeded.  With include_text false
\* or absent the result is exactly the search stubs and only the search
\* endpoint is called; if the search fails the dispatch returns an error text
\* without any contents request.
C24_EnrichmentGuard ==
    (mode = "dispatch" /\ name = "exa_web_search") =>
        /\ ContentsRequests # {} => EnrichmentStarted
        /\ (stubs # NoOutcome /\ ~stubs.ok) =>
              /\ pc = "done"
              /\ IsErrorText(ResultText)
              /\ Len(requests) = 1
              /\ contents = NoOutcome
        /\ (stubs # NoOutcome /\ stubs.ok
              /\ ~Truthy(GetD(arguments, "include_text", B(FALSE)))) =>
              /\ pc = "done"
              /\ ReturnsList
              /\ ReturnedList = stubs.val.l
              /\ \A i \in 1..Len(ReturnedList) :
                    DOMAIN ReturnedList[i].d = {"title", "url", "snippet"}
              /\ Len(requests) = 1
              /\ IsSearchRequest(requests[1])

\* a dispatch with include_text true whose search got a 500 has returned the
\* error text after the one search request
C24_Witness ==
    /\ Dispatched
    /\ name = "exa_web_search"
    /\ Get(arguments, "include_text") = B(TRUE)
    /\ replies = <<Http(500, NotJson)>>
    /\ IsErrorText(ResultText)
    /\ ContentsRequests = {}

\* a dispatch with include_text false has returned its two stubs after the one
\* search request
C24_WitnessPlain ==
    /\ Dispatched
    /\ name = "exa_web_search"
    /\ Get(arguments, "include_text") = B(FALSE)
    /\ ReturnsList
    /\ Len(ReturnedList) = 2
    /\ Len(requests) = 1

\* C25: when exa_web_search is dispatched with include_text true and the
\* search succeeds with zero results, the dispatch returns a success text
\* holding the empty list and issues no contents request: the bulk fetch fails
\* its urls check, the failure is absorbed, and the fallback loop runs zero
\* times.
C25_EmptySearchEnriched ==
    (EnrichmentStarted /\ stubs.val.l = <<>>) =>
        /\ pc = "done"
        /\ ReturnsList
        /\ ReturnedList = <<>>
        /\ ContentsRequests = {}
        /\ Len(requests) = 1
        /\ contents # NoOutcome
        /\ ~contents.ok
        /\ contents.exc.msg[2] = "urls"
        /\ fetched = <<>>

\* an include_text dispatch whose search returned an empty results list has
\* returned the empty list
C25_Witness ==
    /\ EnrichmentStarted
    /\ replies = <<Http(200, Results(<<>>))>>
    /\ pc = "done"
    /\ ReturnsList
    /\ ReturnedList = <<>>

\* the dispatch of the state machine and call_tool as a function agree on the
\* requests issued and on the outcome, in every state of a dispatch
DispatchIsCallTool ==
    mode = "dispatch" =>
        call_tool(name, arguments, EXA_API_KEY, replies) = Ran(outcome, requests)

\* C26: the call_tool registered by build_mcp_server and the call_tool defined
\* inside main behave identically: for the tool name, the arguments, the
\* credential and the upstream responses of any dispatch they return the same
\* envelope text and issue the same sequence of upstream requests.
C26_SameBehaviour ==
    mode = "dispatch" =>
        main_call_tool(name, arguments, EXA_API_KEY, replies)
            = call_tool(name, arguments, EXA_API_KEY, replies)

\* the same statement away from the urls check of exa_fetch_contents
C26_SameButUrlsMessage ==
    (mode = "dispatch" /\ ~(name = "exa_fetch_contents" /\ ~Branch(name, arguments).ok)) =>
        main_call_tool(name, arguments, EXA_API_KEY, replies)
            = call_tool(name, arguments, EXA_API_KEY, replies)

\* C27: dispatches are independent.  When two call_tool dispatches run
\* concurrently with their upstream calls interleaved in any order, each
\* issues the requests and returns the envelope it would when run alone
\* against the responses it received; nothing of the other dispatch appears
\* in it.
C27_Independent ==
    \A i \in TaskIds :
        tasks[i].pc # "idle" =>
            call_tool(tasks[i].name, tasks[i].arguments, EXA_API_KEY, tasks[i].replies)
                = Ran(tasks[i].outcome, tasks[i].requests)

\* two enriching searches are in flight at once: the first waits for its bulk
\* fetch with 1 stub, the second is in its fallback loop with 2 stubs and has
\* already fetched the first of them
C27_Witness ==
    /\ tasks[1].pc = "await_bulk"
    /\ tasks[2].pc = "await_fetch"
    /\ Len(tasks[1].stubs.val.l) = 1
    /\ Len(tasks[2].stubs.val.l) = 2
    /\ Len(tasks[2].fetched) = 1
    /\ tasks[2].fetched[1].ok
    /\ Len(tasks[2].requests) = 4

\* the dispatch has been cancelled
WasCancelled == mode = "dispatch" /\ \E i \in 1..Len(replies) : replies[i] = Cancelled

\* C28: a dispatch cancelled while an upstream call is in flight emits no
\* result (neither a success nor an error text): the cancellation leaves
\* call_tool as an exception.  It issues no request after the cancellation; a
\* cancellation during the bulk fetch of an enrichment does not start the
\* per-url loop, and one during a per-url fetch does not move on to the next
\* stub.
C28_CancelEmitsNothing ==
    WasCancelled =>
        /\ pc = "done"
        /\ replies[Len(replies)] = Cancelled
        /\ Len(requests) = Len(replies)
        /\ outcome.kind = "raise"
        /\ outcome.exc.cls = "CancelledError"
        /\ IsBulkRequest(requests[Len(requests)]) =>
              /\ SingleRequests = {}
              /\ fetched = <<>>
              /\ enriched = <<>>

\* an enrichment over 2 stubs was cancelled while its bulk fetch was in
\* flight: two requests were made and nothing was returned
C28_Witness ==
    /\ WasCancelled
    /\ pc = "done"
    /\ name = "exa_web_search"
    /\ stubs # NoOutcome
    /\ stubs.ok
    /\ Len(stubs.val.l) = 2
    /\ Len(requests) = 2
    /\ IsBulkRequest(requests[2])
    /\ replies[2] = Cancelled
    /\ outcome.kind = "raise"

\* a fallback over 2 stubs was cancelled during the fetch for its first stub:
\* no request was made for the second
C28_WitnessFetch ==
    /\ WasCancelled
    /\ pc = "done"
    /\ stubs # NoOutcome
    /\ stubs.ok
    /\ Len(stubs.val.l) = 2
    /\ Cardinality(SingleRequests) = 1
    /\ replies[Len(replies)] = Cancelled

\* an operation with optional request parameters is waiting for the response
\* to its request; opcall holds the arguments the function was called with
OptionsCall ==
    /\ pc \in {"await", "await_direct"}
    /\ opcall.op \in {"exa_fetch_contents", "exa_fetch_subpages", "exa_research_start"}

\* the payload of the request has key k exactly when the argument v is
\* non-empty, and then carries v as it is
SentIffSupplied(payload, k, v) ==
    /\ k \in DOMAIN payload.d <=> Truthy(v)
    /\ Truthy(v) => payload.d[k] = v

C29_WitnessOmitted ==
    /\ OptionsCall
    /\ mode = "direct"
    /\ opcall.op = "exa_research_start"
    /\ opcall.kw.model = S("")
    /\ opcall.kw.output_schema = EmptyDict
    /\ DOMAIN requests[1].payload.d = {"instructions"}

\* an exa_fetch_contents or exa_fetch_subpages call is over and its single
\* request was answered with a JSON object
Reshaped(op) ==
    /\ pc = "done"
    /\ name = op
    /\ Len(replies) = 1
    /\ replies[1].kind = "http"
    /\ replies[1].status = 200
    /\ IsDict(replies[1].data)

\* rec is the record {title, url, text} of the upstream item
IsRecordOf(rec, item) ==
    /\ IsDict(rec)
    /\ DOMAIN rec.d = {"title", "url", "text"}
    /\ \A k \in {"title", "url", "text"} : rec.d[k] = Get(item, k)

\* recs has one record per item of items, in the order of items
IsRecordsOf(recs, items) ==
    /\ IsList(recs)
    /\ Len(recs.l) = Len(items)
    /\ \A i \in 1..Len(items) : IsRecordOf(recs.l[i], items[i])

\* the nested subpages list of the first upstream result, empty when absent
UpstreamSubpages == GetD(UpstreamList[1], "subpages", L(<<>>)).l

\* C30: content reshaping is a one-to-one, order-preserving map of upstream
\* items.  exa_fetch_contents returns exactly one {title, url, text} record per
\* item of the upstream results list, in upstream order, so its length is the
\* upstream count and not the number of requested urls.  exa_fetch_subpages
\* returns page from the first upstream result and one record per entry of
\* that result's nested subpages list, in order, an empty list when the field
\* is absent.
C30_OneToOneReshaping ==
    /\ (Reshaped("exa_fetch_contents")
          /\ IsList(GetD(replies[1].data, "results", L(<<>>)))
          /\ AllDicts(UpstreamList)) =>
              /\ CallSucceeded
              /\ IsRecordsOf(ReturnedValue, UpstreamList)
    /\ (Reshaped("exa_fetch_subpages")
          /\ IsList(GetD(replies[1].data, "results", L(<<>>)))
          /\ UpstreamList # <<>>
          /\ IsDict(UpstreamList[1])
          /\ IsList(GetD(UpstreamList[1], "subpages", L(<<>>)))
          /\ AllDicts(UpstreamSubpages)) =>
              /\ CallSucceeded
              /\ DOMAIN ReturnedValue.d = {"page", "subpages"}
              /\ IsRecordOf(ReturnedValue.d["page"], UpstreamList[1])
              /\ IsRecordsOf(ReturnedValue.d["subpages"], UpstreamSubpages)

\* one url was requested and two records came back, in the upstream order,
\* the first of them for an item without url
C30_Witness ==
    /\ Reshaped("exa_fetch_contents")
    /\ CallSucceeded
    /\ Len(requests[1].payload.d["urls"].l) = 1
    /\ Len(UpstreamList) = 2
    /\ "url" \notin DOMAIN UpstreamList[1].d
    /\ Get(UpstreamList[2], "url") = S("a")
    /\ Len(ReturnedValue.l) = 2
    /\ ReturnedValue.l[1].d["url"] = PyNone
    /\ ReturnedValue.l[2].d["url"] = S("a")

\* a subpage fetch returned two different subpage records in upstream order
C30_WitnessSubpages ==
    /\ Reshaped("exa_fetch_subpages")
    /\ CallSucceeded
    /\ Len(UpstreamList) >= 1
    /\ IsDict(UpstreamList[1])
    /\ Len(UpstreamSubpages) = 2
    /\ UpstreamSubpages[1] # UpstreamSubpages[2]
    /\ ReturnedValue.d["subpages"].l[1].d["url"] = Get(UpstreamSubpages[1], "url")
    /\ ReturnedValue.d["subpages"].l[2].d["url"] = Get(UpstreamSubpages[2], "url")

\* a subpage fetch whose first result has no subpages field returned an empty
\* list of subpages
C30_WitnessNoSubpages ==
    /\ Reshaped("exa_fetch_subpages")
    /\ CallSucceeded
    /\ Len(UpstreamList) = 2
    /\ "subpages" \notin DOMAIN UpstreamList[1].d
    /\ ReturnedValue.d["subpages"] = L(<<>>)

====
